---- MODULE Spec2Model ----
(***************************************************************************)
(* SecureVault: the cryptographic storage engine.                          *)
(*                                                                         *)
(* Text is a sequence of UTF-16 code units, binary data a sequence of      *)
(* bytes 0..255.  The repository's own code (EncryptionService,            *)
(* LocalStorageService, the data sources, the vault providers and the      *)
(* local-database services) is translated statement by statement.  The     *)
(* platform primitives it calls are computed, not assumed: TextEncoder and *)
(* TextDecoder as UTF-8, btoa/atob as base64, and PBKDF2, AES-GCM, SHA-256 *)
(* and bcrypt by a keyed, position-weighted digest in the prime field     *)
(* 32749.  That digest changes whenever one byte of its input changes and  *)
(* keeps the passwords of this model apart, which is what the real         *)
(* primitives guarantee up to negligible probability;                      *)
(* crypto.getRandomValues is a source that never repeats (a counter).      *)
(***************************************************************************)
EXTENDS Integers, Sequences, FiniteSets, Bags, TLC

\* -------------------------------------------------------------- the state
VARIABLES
  rng,        \* number of values drawn from crypto.getRandomValues so far
  ids,        \* number of row ids the databases have generated so far
  produced,   \* history: every call of encrypt, with its salt, nonce and token
  hPlain,     \* cipher run: the plaintext
  hSecret,    \*   the secret it is encrypted under
  hHonest,    \*   the token encrypt returned for it (null before)
  hOp,        \*   the last call made: none, encrypt, decrypt, tamper, malformed
  hToken,     \*   the token handed to decrypt
  hWith,      \*   the secret handed to decrypt
  hPos,       \*   the byte of the token that was changed (0: none)
  hResult,    \*   what decrypt returned or threw
  hLoad,      \*   what LocalStorageService.getEntries makes of the same token
  build,      \* which application is running: "guest" (VaultContext.tsx
              \*   without Supabase), "cloud" (VaultContext.tsx with Supabase),
              \*   "unified" (the local database), or none of them:
              \*   "cipher" (the EncryptionService on its own), "local"
              \*   (the LocalDataSource), "generator" (the PasswordGenerator); further
              \*   runs of VaultContext.tsx: "both", "session", "remote"
  clock,      \* Date.now()
  user,       \* AuthProvider: the signed-in user's id, or null
  isGuest,    \* AuthProvider (cloud): guest mode
  masterPassword,            \* VaultProvider (cloud): the cached secret, or null
  entries,                   \* VaultProvider: the entries shown
  dataSource,                \* VaultProvider (cloud): the data source, or null
  error,                     \* VaultProvider: the error shown, or null
  isMasterPasswordVerified,  \* VaultProvider (unified)
  masterHashItem,     \* localStorage 'securevault_master_hash', or null
  entriesItem,        \* localStorage 'securevault_entries', or null
  passwordEntries,    \* table password_entries (Supabase, or the local database)
  masterPasswordHash, \* column users.master_password_hash of the user, or null
  ret,          \* the last call: its role, its argument, what it returned
  createdFrom,  \* history: the secret the stored verifier was made from
  tasks,        \* LocalDataSource run: each caller's call in flight or ended
  gPassword,    \* PasswordGenerator run: the password handed in
  gStrength,    \*   what calculateStrength returned for it (null before)
  gSeen,        \*   history: the passwords the form was given, with their scores
  calls         \* guest session: each handler call of VaultProvider in flight or ended

cipherVars == <<hPlain, hSecret, hHonest, hOp, hToken, hWith, hPos, hResult, hLoad>>

storeVars ==
  <<build, clock, user, isGuest, masterPassword, entries, dataSource, error,
    isMasterPasswordVerified, masterHashItem, entriesItem, passwordEntries,
    masterPasswordHash, ret, createdFrom>>

\* The runs of the LocalDataSource, of the PasswordGenerator and of a guest's
\* session with calls in flight.
sideVars == <<tasks, gPassword, gStrength, gSeen, calls>>

\* What the applications leave alone.
runVars == <<cipherVars, sideVars>>

vars == <<rng, ids, produced, cipherVars, storeVars, sideVars>>

\* ------------------------------------------------------------------ bounds
\* Number of values the random source hands out in one behaviour.
MaxDraws == 5
\* The same for a signed-in user's session with the remote table alone.
MaxRemoteDraws == 6
\* The last reading of the clock.
MaxClock == 1
\* Number of entries the guest vault holds.
MaxEntries == 2
\* Number of rows ever inserted into password_entries.
MaxIds == 2
\* Number of bcrypt salts drawn.
MaxSalts == 2
\* Consecutive failed verifications counted (further ones are not told
\* apart).
MaxFailures == 2

\* ------------------------------------------------------- program constants
\* new Uint8Array(16): the salt length, and the first offset of decrypt.
SALT_LEN == 16
\* new Uint8Array(12): the nonce length.
IV_LEN == 12
\* AES-GCM's default tag length in bytes (no tagLength is passed).
TAG_LEN == 16

\* ------------------------------------------------------------ JS outcomes
Ok(v) == [ok |-> TRUE, value |-> v, error |-> ""]
Throw(e) == [ok |-> FALSE, value |-> <<>>, error |-> e]

\* Array.prototype.slice(from, to) with 0-based, end-exclusive, clamped indices.
Slice(s, from, to) ==
  LET hi == IF to > Len(s) THEN Len(s) ELSE to
  IN IF from >= hi THEN <<>> ELSE SubSeq(s, from + 1, hi)

\* --------------------------------------------------- TextEncoder / Decoder
IsHighSurrogate(c) == c >= 55296 /\ c <= 56319
IsLowSurrogate(c) == c >= 56320 /\ c <= 57343

\* Concatenation of the pieces lo..hi of a sequence of sequences, by halves.
RECURSIVE FlattenRange(_, _, _)
FlattenRange(ps, lo, hi) ==
  IF lo > hi THEN <<>>
  ELSE IF lo = hi THEN ps[lo]
  ELSE LET mid == (lo + hi) \div 2
       IN FlattenRange(ps, lo, mid) \o FlattenRange(ps, mid + 1, hi)

Flatten(ps) == FlattenRange(ps, 1, Len(ps))

\* The bytes TextEncoder.encode emits for the code unit at position i: a
\* surrogate pair is one 4-byte sequence (emitted at its first unit), an
\* unpaired surrogate is replaced by U+FFFD (EF BF BD).
Utf8Piece(s, i) ==
  LET c == s[i] IN
  IF c < 128 THEN <<c>>
  ELSE IF c < 2048 THEN <<192 + (c \div 64), 128 + (c % 64)>>
  ELSE IF IsLowSurrogate(c) /\ i > 1 /\ IsHighSurrogate(s[i - 1]) THEN <<>>
  ELSE IF IsHighSurrogate(c) /\ i < Len(s) /\ IsLowSurrogate(s[i + 1])
    THEN LET cp == 65536 + (c - 55296) * 1024 + (s[i + 1] - 56320)
         IN <<240 + (cp \div 262144), 128 + ((cp \div 4096) % 64),
              128 + ((cp \div 64) % 64), 128 + (cp % 64)>>
  ELSE IF IsHighSurrogate(c) \/ IsLowSurrogate(c) THEN <<239, 191, 189>>
  ELSE <<224 + (c \div 4096), 128 + ((c \div 64) % 64), 128 + (c % 64)>>

\* TextEncoder.encode: UTF-16 code units to UTF-8.  (ASCII text is its own
\* encoding.)
Utf8Encode(s) ==
  IF \A i \in 1..Len(s) : s[i] < 128 THEN s
  ELSE Flatten([i \in 1..Len(s) |-> Utf8Piece(s, i)])

IsCont(b, i) == i <= Len(b) /\ b[i] >= 128 /\ b[i] <= 191

\* One step of the UTF-8 decoder of TextDecoder (fatal: false) at position
\* i: the code units it emits and the position it continues at.  An
\* ill-formed sequence yields U+FFFD.
DecodeStep(b, i) ==
  LET c == b[i] IN
  IF c < 128 THEN [out |-> <<c>>, next |-> i + 1]
  ELSE IF c >= 194 /\ c <= 223 /\ IsCont(b, i + 1)
    THEN [out |-> <<(c - 192) * 64 + (b[i + 1] - 128)>>, next |-> i + 2]
  ELSE IF c >= 224 /\ c <= 239 /\ IsCont(b, i + 1) /\ IsCont(b, i + 2)
          /\ (c # 224 \/ b[i + 1] >= 160) /\ (c # 237 \/ b[i + 1] <= 159)
    THEN [out |-> <<(c - 224) * 4096 + (b[i + 1] - 128) * 64 + (b[i + 2] - 128)>>,
          next |-> i + 3]
  ELSE IF c >= 240 /\ c <= 244 /\ IsCont(b, i + 1) /\ IsCont(b, i + 2)
          /\ IsCont(b, i + 3)
          /\ (c # 240 \/ b[i + 1] >= 144) /\ (c # 244 \/ b[i + 1] <= 143)
    THEN LET cp == (c - 240) * 262144 + (b[i + 1] - 128) * 4096
                   + (b[i + 2] - 128) * 64 + (b[i + 3] - 128) - 65536
         IN [out |-> <<55296 + (cp \div 1024), 56320 + (cp % 1024)>>,
             next |-> i + 4]
  ELSE [out |-> <<65533>>, next |-> i + 1]

\* Up to k steps of the decoder from position i.
RECURSIVE DecodeBlock(_, _, _)
DecodeBlock(b, i, k) ==
  LET Joined(st, rest) == [out |-> st.out \o rest.out, next |-> rest.next]
      Stepped(st) == Joined(st, DecodeBlock(b, st.next, k - 1))
  IN IF k = 0 \/ i > Len(b) THEN [out |-> <<>>, next |-> i]
     ELSE Stepped(DecodeStep(b, i))

\* The decoder run to the end of the bytes, sixteen steps at a time.
RECURSIVE Utf8DecodeFrom(_, _)
Utf8DecodeFrom(b, i) ==
  LET Continued(blk) == blk.out \o Utf8DecodeFrom(b, blk.next)
  IN IF i > Len(b) THEN <<>> ELSE Continued(DecodeBlock(b, i, 16))

\* TextDecoder.decode with the default ignoreBOM: false: a leading byte order
\* mark (EF BB BF) is dropped from the output.  (ASCII bytes decode to
\* themselves.)
Utf8Decode(b) ==
  IF \A i \in 1..Len(b) : b[i] < 128 THEN b
  ELSE IF Len(b) >= 3 /\ b[1] = 239 /\ b[2] = 187 /\ b[3] = 191
  THEN Utf8DecodeFrom(b, 4)
  ELSE Utf8DecodeFrom(b, 1)

\* ------------------------------------------------------------ btoa / atob
B64Char(i) ==
  IF i < 26 THEN 65 + i
  ELSE IF i < 52 THEN 97 + (i - 26)
  ELSE IF i < 62 THEN 48 + (i - 52)
  ELSE IF i = 62 THEN 43 ELSE 47

\* -1 for a code unit outside the base64 alphabet.
B64Index(c) ==
  IF c >= 65 /\ c <= 90 THEN c - 65
  ELSE IF c >= 97 /\ c <= 122 THEN c - 97 + 26
  ELSE IF c >= 48 /\ c <= 57 THEN c - 48 + 52
  ELSE IF c = 43 THEN 62
  ELSE IF c = 47 THEN 63 ELSE 0 - 1

\* btoa(String.fromCharCode(...bytes)): every byte is one Latin-1 character;
\* three bytes make four characters, the last group is padded with "=".
Btoa(b) ==
  LET n == Len(b)
      byte(j) == IF j <= n THEN b[j] ELSE 0
      char(k) ==
        LET g == 3 * ((k - 1) \div 4)
            r == (k - 1) % 4
        IN IF r = 0 THEN B64Char(byte(g + 1) \div 4)
           ELSE IF r = 1
             THEN B64Char((byte(g + 1) % 4) * 16 + (byte(g + 2) \div 16))
           ELSE IF r = 2
             THEN IF g + 2 > n THEN 61
                  ELSE B64Char((byte(g + 2) % 16) * 4 + (byte(g + 3) \div 64))
           ELSE IF g + 3 > n THEN 61 ELSE B64Char(byte(g + 3) % 64)
  IN [k \in 1..(4 * ((n + 2) \div 3)) |-> char(k)]

IsAsciiWhitespace(c) == c \in {9, 10, 12, 13, 32}

\* The bytes of a text over the base64 alphabet whose length is not 4k+1;
\* the unused low bits of the last character are discarded unchecked.
AtobGroups(t) ==
  LET n == Len(t)
      v(k) == B64Index(t[k])
      byte(j) ==
        LET g == 4 * ((j - 1) \div 3)
            r == (j - 1) % 3
        IN IF r = 0 THEN v(g + 1) * 4 + (v(g + 2) \div 16)
           ELSE IF r = 1 THEN (v(g + 2) % 16) * 16 + (v(g + 3) \div 4)
           ELSE (v(g + 3) % 4) * 64 + v(g + 4)
  IN [j \in 1..(3 * (n \div 4) + (IF n % 4 = 0 THEN 0 ELSE (n % 4) - 1)) |-> byte(j)]

\* atob (forgiving-base64 decode): whitespace is removed, up to two trailing
\* "=" of a text whose length is a multiple of 4 are removed, and a remaining
\* length of 4k+1 or a character outside the alphabet throws.
Atob(text) ==
  LET Unpadded(t0, n0) ==
        IF n0 % 4 = 0 /\ n0 >= 2 /\ t0[n0] = 61 /\ t0[n0 - 1] = 61
          THEN SubSeq(t0, 1, n0 - 2)
        ELSE IF n0 % 4 = 0 /\ n0 >= 1 /\ t0[n0] = 61
          THEN SubSeq(t0, 1, n0 - 1)
        ELSE t0
      Decoded(t1) ==
        IF Len(t1) % 4 = 1 \/ (\E k \in 1..Len(t1) : B64Index(t1[k]) < 0)
        THEN Throw("InvalidCharacterError")
        ELSE Ok(AtobGroups(t1))
      Stripped(t0) == Decoded(Unpadded(t0, Len(t0)))
  IN Stripped(SelectSeq(text, LAMBDA c : ~IsAsciiWhitespace(c)))

\* ------------------------------------------------------ keyed digest
\* The weight of position i, between 1 and 251.
DigestWeight(i) == 1 + ((i * 37) % 251)

\* A digest in the prime field 32749, started from h0: the sum over the
\* positions of s of (s[i] + 1) * DigestWeight(i), taken as the size of the
\* bag that holds position i that many times.  A change of one byte of s
\* changes the digest.
DigestFrom(h0, s) ==
  (h0 * 263 + Len(s) * 7
     + BagCardinality([i \in 1..Len(s) |-> (s[i] + 1) * DigestWeight(i)]))
  % 32749

Digest(s) == DigestFrom(1, s)

\* ------------------------------------------------------ EncryptionService
\* A faulty variant of RandomBytes: the array is returned as allocated, all
\* zero.
RandomBytesZero(n, c) == [i \in 1..n |-> 0]

\* crypto.getRandomValues(new Uint8Array(n)), draw number c of the behaviour.
RandomBytes(n, c) == [i \in 1..n |-> (c * 53 + i * 17) % 256]

\* PBKDF2-HMAC-SHA256 (100000 iterations) of the password bytes and the salt.
Pbkdf2(pwBytes, salt) == Digest(pwBytes \o salt)

\* A faulty variant of DeriveKey: the salt does not enter the derivation.
DeriveKeyFixedSalt(password, salt) == Pbkdf2(Utf8Encode(password), <<>>)

\* deriveKey: importKey over encoder.encode(password), then PBKDF2.  No
\* check of the password's length is made.
DeriveKey(password, salt) == Pbkdf2(Utf8Encode(password), salt)

\* The AES-GCM authentication tag over key, nonce and ciphertext.
AesGcmTag(key, iv, ct) ==
  LET Bytes(acc) ==
        [j \in 1..TAG_LEN |->
           IF j = 1 THEN acc % 256
           ELSE IF j = 2 THEN acc \div 256
           ELSE (acc * j + j) % 256]
  IN Bytes((key * 263 + Digest(iv \o ct)) % 32749)

\* The AES-CTR key stream of key and nonce: its seed, and its byte at
\* position i.
KeySeed(key, iv) == (key + Digest(iv)) % 256
KeyStream(seed, i) == (seed + 31 * i) % 256

\* crypto.subtle.encrypt({name: 'AES-GCM', iv}, key, data): ciphertext || tag.
SubtleEncrypt(key, iv, data) ==
  LET Tagged(ct) == ct \o AesGcmTag(key, iv, ct)
      Keyed(seed) ==
        Tagged([i \in 1..Len(data) |-> (data[i] + KeyStream(seed, i)) % 256])
  IN Keyed(KeySeed(key, iv))

\* A faulty variant of SubtleDecrypt: the tag is cut off and not compared.
SubtleDecryptUnchecked(key, iv, data) ==
  IF Len(data) < TAG_LEN THEN Throw("OperationError")
  ELSE Ok([i \in 1..(Len(data) - TAG_LEN) |->
             (data[i] + 256 - KeyStream(KeySeed(key, iv), i)) % 256])

\* crypto.subtle.decrypt: throws OperationError when the data is shorter than
\* the tag or the tag does not match.
SubtleDecrypt(key, iv, data) ==
  LET Opened(ct, tag, seed) ==
        IF tag # AesGcmTag(key, iv, ct) THEN Throw("OperationError")
        ELSE Ok([i \in 1..Len(ct) |->
                   (ct[i] + 256 - KeyStream(seed, i)) % 256])
  IN IF Len(data) < TAG_LEN THEN Throw("OperationError")
     ELSE Opened(SubSeq(data, 1, Len(data) - TAG_LEN),
                 SubSeq(data, Len(data) - TAG_LEN + 1, Len(data)),
                 KeySeed(key, iv))

\* EncryptionService.encrypt with the two random draws made explicit.
Encrypt(plaintext, password, salt, iv) ==
  LET Combined(encryptedData) == Btoa(salt \o iv \o encryptedData)
  IN Combined(SubtleEncrypt(DeriveKey(password, salt), iv,
                            Utf8Encode(plaintext)))

\* The try block of EncryptionService.decrypt.
DecryptBody(ciphertext, password) ==
  LET Text(decryptedData) ==
        IF ~decryptedData.ok THEN decryptedData
        ELSE Ok(Utf8Decode(decryptedData.value))
      Parts(salt, iv, data) ==
        Text(SubtleDecrypt(DeriveKey(password, salt), iv, data))
      Split(combined) ==
        Parts(Slice(combined, 0, SALT_LEN),
              Slice(combined, SALT_LEN, SALT_LEN + IV_LEN),
              Slice(combined, SALT_LEN + IV_LEN, Len(combined)))
      Decoded(decoded) ==
        IF ~decoded.ok THEN decoded ELSE Split(decoded.value)
  IN Decoded(Atob(ciphertext))

\* A faulty variant of Decrypt: what the try block throws reaches the caller.
DecryptRethrow(ciphertext, password) == DecryptBody(ciphertext, password)

\* EncryptionService.decrypt: whatever the try block throws is replaced by
\* one Error.
Decrypt(ciphertext, password) ==
  LET Caught(r) ==
        IF r.ok THEN r
        ELSE Throw("Decryption failed. Invalid password or corrupted data.")
  IN Caught(DecryptBody(ciphertext, password))

HexDigit(d) == IF d < 10 THEN 48 + d ELSE 97 + (d - 10)

\* crypto.subtle.digest('SHA-256', bytes).
Sha256(bytes) ==
  LET Bytes(d) == <<d \div 256, d % 256>> IN Bytes(DigestFrom(7, bytes))

\* EncryptionService.hashPassword: the digest of the encoded password as
\* lower-case hex, two digits per byte.  No salt enters.
HashPassword(password) ==
  LET hex(b) == <<HexDigit(b \div 16), HexDigit(b % 16)>>
      Joined(hashArray) ==
        Flatten([i \in 1..Len(hashArray) |-> hex(hashArray[i])])
  IN Joined(Sha256(Utf8Encode(password)))

\* ------------------------------------------------- JSON.stringify / parse
\* A JSON value: t is "str" (s: the text), "arr" (kids: the elements) or
\* "obj" (keys and kids: the members in insertion order).
JStr(s) == [t |-> "str", s |-> s, keys |-> <<>>, kids |-> <<>>]
JArr(kids) == [t |-> "arr", s |-> <<>>, keys |-> <<>>, kids |-> kids]
JObj(keys, kids) == [t |-> "obj", s |-> <<>>, keys |-> keys, kids |-> kids]

\* What QuoteJSONString emits for the code unit at position i: quotes,
\* backslashes, control characters and unpaired surrogates are escaped,
\* everything else is copied.
QuotePiece(s, i) ==
  LET c == s[i]
      u4 == <<92, 117, HexDigit(c \div 4096), HexDigit((c \div 256) % 16),
              HexDigit((c \div 16) % 16), HexDigit(c % 16)>>
  IN IF c = 34 \/ c = 92 THEN <<92, c>>
     ELSE IF c = 8 THEN <<92, 98>>
     ELSE IF c = 9 THEN <<92, 116>>
     ELSE IF c = 10 THEN <<92, 110>>
     ELSE IF c = 12 THEN <<92, 102>>
     ELSE IF c = 13 THEN <<92, 114>>
     ELSE IF c < 32 THEN u4
     ELSE IF IsLowSurrogate(c) /\ i > 1 /\ IsHighSurrogate(s[i - 1]) THEN <<c>>
     ELSE IF IsHighSurrogate(c) /\ i < Len(s) /\ IsLowSurrogate(s[i + 1]) THEN <<c>>
     ELSE IF IsHighSurrogate(c) \/ IsLowSurrogate(c) THEN u4
     ELSE <<c>>

QuoteJSONString(s) ==
  <<34>> \o Flatten([i \in 1..Len(s) |-> QuotePiece(s, i)]) \o <<34>>

RECURSIVE JsonStringify(_)
RECURSIVE StringifyKids(_, _)
JsonStringify(v) ==
  IF v.t = "str" THEN QuoteJSONString(v.s)
  ELSE IF v.t = "arr" THEN <<91>> \o StringifyKids(v, 1) \o <<93>>
  ELSE <<123>> \o StringifyKids(v, 1) \o <<125>>

StringifyKids(v, i) ==
  IF i > Len(v.kids) THEN <<>>
  ELSE (IF i > 1 THEN <<44>> ELSE <<>>)
       \o (IF v.t = "obj" THEN QuoteJSONString(v.keys[i]) \o <<58>> ELSE <<>>)
       \o JsonStringify(v.kids[i])
       \o StringifyKids(v, i + 1)

\* Parser results: the value read and the position after it.
Parsed(v, next) == [ok |-> TRUE, value |-> v, next |-> next]
SyntaxError == [ok |-> FALSE, value |-> JStr(<<>>), next |-> 0]

HexValue(c) ==
  IF c >= 48 /\ c <= 57 THEN c - 48
  ELSE IF c >= 97 /\ c <= 102 THEN c - 87
  ELSE IF c >= 65 /\ c <= 70 THEN c - 55 ELSE 0 - 1

RECURSIVE SkipWs(_, _)
SkipWs(t, i) ==
  IF i <= Len(t) /\ t[i] \in {9, 10, 13, 32} THEN SkipWs(t, i + 1) ELSE i

\* The characters of a string literal after its opening quote.
RECURSIVE ParseChars(_, _)
ParseChars(t, j) ==
  IF j > Len(t) THEN SyntaxError
  ELSE LET c == t[j]
           prefixed(ch, r) ==
             IF r.ok THEN Parsed(JStr(<<ch>> \o r.value.s), r.next)
             ELSE SyntaxError
           more(ch, k) == prefixed(ch, ParseChars(t, k))
       IN IF c = 34 THEN Parsed(JStr(<<>>), j + 1)
          ELSE IF c < 32 THEN SyntaxError
          ELSE IF c # 92 THEN more(c, j + 1)
          ELSE IF j + 1 > Len(t) THEN SyntaxError
          ELSE LET e == t[j + 1] IN
            IF e \in {34, 92, 47} THEN more(e, j + 2)
            ELSE IF e = 98 THEN more(8, j + 2)
            ELSE IF e = 102 THEN more(12, j + 2)
            ELSE IF e = 110 THEN more(10, j + 2)
            ELSE IF e = 114 THEN more(13, j + 2)
            ELSE IF e = 116 THEN more(9, j + 2)
            ELSE IF e = 117 /\ j + 5 <= Len(t)
                    /\ \A k \in 2..5 : HexValue(t[j + k]) >= 0
              THEN more(HexValue(t[j + 2]) * 4096 + HexValue(t[j + 3]) * 256
                        + HexValue(t[j + 4]) * 16 + HexValue(t[j + 5]), j + 6)
            ELSE SyntaxError

RECURSIVE ParseValue(_, _)
RECURSIVE ParseElements(_, _, _)
RECURSIVE ParseMembers(_, _, _, _)
\* A value starting at or after position i0: strings, arrays and objects,
\* the values the vault serializes.
ParseValue(t, i0) ==
  LET Array(j) ==
        IF j <= Len(t) /\ t[j] = 93 THEN Parsed(JArr(<<>>), j + 1)
        ELSE ParseElements(t, j, <<>>)
      Object(j) ==
        IF j <= Len(t) /\ t[j] = 125 THEN Parsed(JObj(<<>>, <<>>), j + 1)
        ELSE ParseMembers(t, j, <<>>, <<>>)
      Value(i) ==
        IF i > Len(t) THEN SyntaxError
        ELSE IF t[i] = 34 THEN ParseChars(t, i + 1)
        ELSE IF t[i] = 91 THEN Array(SkipWs(t, i + 1))
        ELSE IF t[i] = 123 THEN Object(SkipWs(t, i + 1))
        ELSE SyntaxError
  IN Value(SkipWs(t, i0))

ParseElements(t, i, acc) ==
  LET After(r, j) ==
        IF j > Len(t) THEN SyntaxError
        ELSE IF t[j] = 93 THEN Parsed(JArr(Append(acc, r.value)), j + 1)
        ELSE IF t[j] = 44 THEN ParseElements(t, j + 1, Append(acc, r.value))
        ELSE SyntaxError
      Element(r) == IF ~r.ok THEN SyntaxError ELSE After(r, SkipWs(t, r.next))
  IN Element(ParseValue(t, i))

ParseMembers(t, i0, keys, kids) ==
  LET After(k, r, j) ==
        IF j > Len(t) THEN SyntaxError
        ELSE IF t[j] = 125
          THEN Parsed(JObj(Append(keys, k.value.s), Append(kids, r.value)), j + 1)
        ELSE IF t[j] = 44
          THEN ParseMembers(t, j + 1, Append(keys, k.value.s), Append(kids, r.value))
        ELSE SyntaxError
      Member_(k, r) ==
        IF ~r.ok THEN SyntaxError ELSE After(k, r, SkipWs(t, r.next))
      Colon(k, c) ==
        IF c > Len(t) \/ t[c] # 58 THEN SyntaxError
        ELSE Member_(k, ParseValue(t, c + 1))
      Key(k) == IF ~k.ok THEN SyntaxError ELSE Colon(k, SkipWs(t, k.next))
      Name(i) ==
        IF i > Len(t) \/ t[i] # 34 THEN SyntaxError
        ELSE Key(ParseChars(t, i + 1))
  IN Name(SkipWs(t, i0))

\* JSON.parse: one value and nothing but whitespace after it, else a
\* SyntaxError is thrown.
JsonParse(text) ==
  LET Whole(r) ==
        IF r.ok /\ SkipWs(text, r.next) > Len(text) THEN Ok(r.value)
        ELSE Throw("SyntaxError")
  IN Whole(ParseValue(text, 1))

\* ---------------------------------------------------- null and undefined
Null == <<>>
Some(x) == <<x>>

\* ------------------------------------------------------ LocalStorageService
\* A PasswordEntry as an object: the caller's fields first, then the three
\* fields addEntry adds ({...entry, id, created_at, updated_at}).
EntryKeys ==
  << <<116, 105, 116, 108, 101>>,
     <<112, 97, 115, 115, 119, 111, 114, 100>>,
     <<105, 100>>,
     <<99, 114, 101, 97, 116, 101, 100, 95, 97, 116>>,
     <<117, 112, 100, 97, 116, 101, 100, 95, 97, 116>> >>

EntryToJson(e) ==
  JObj(EntryKeys,
       <<JStr(e.title), JStr(e.password), JStr(e.id), JStr(e.created_at),
         JStr(e.updated_at)>>)

EntriesToJson(es) == JArr([i \in 1..Len(es) |-> EntryToJson(es[i])])

\* obj[key] for a parsed object: the last member of that name (an absent
\* member reads as the empty text).
Member(obj, key) ==
  LET at == {i \in 1..Len(obj.keys) : obj.keys[i] = key}
  IN IF at = {} THEN <<>>
     ELSE obj.kids[CHOOSE i \in at : \A j \in at : j <= i].s

JsonToEntry(v) ==
  [title |-> Member(v, EntryKeys[1]), password |-> Member(v, EntryKeys[2]),
   id |-> Member(v, EntryKeys[3]), created_at |-> Member(v, EntryKeys[4]),
   updated_at |-> Member(v, EntryKeys[5])]

JsonToEntries(v) == [i \in 1..Len(v.kids) |-> JsonToEntry(v.kids[i])]

\* A faulty variant of getEntries: a failure is swallowed and the vault
\* taken for empty.
GetEntriesEmptyOnFailure(encrypted, masterPassword_) ==
  LET Entries(parsed) ==
        IF ~parsed.ok THEN Ok(<<>>) ELSE Ok(JsonToEntries(parsed.value))
      Parse(decrypted) ==
        IF ~decrypted.ok THEN Ok(<<>>) ELSE Entries(JsonParse(decrypted.value))
  IN IF encrypted = Null \/ encrypted[1] = <<>> THEN Ok(<<>>)
     ELSE Parse(Decrypt(encrypted[1], masterPassword_))

\* LocalStorageService.getEntries on the stored item: no item (or an empty
\* one) is the empty vault; a failure of decrypt or of JSON.parse is caught
\* and replaced by one Error.
GetEntries(encrypted, masterPassword_) ==
  LET Entries(parsed) ==
        IF ~parsed.ok THEN Throw("Invalid master password")
        ELSE Ok(JsonToEntries(parsed.value))
      Parse(decrypted) ==
        IF ~decrypted.ok THEN Throw("Invalid master password")
        ELSE Entries(JsonParse(decrypted.value))
  IN IF encrypted = Null \/ encrypted[1] = <<>> THEN Ok(<<>>)
     ELSE Parse(Decrypt(encrypted[1], masterPassword_))

\* LocalStorageService.saveEntries: the item it stores.
SaveEntries(es, masterPassword_, salt, iv) ==
  Encrypt(JsonStringify(EntriesToJson(es)), masterPassword_, salt, iv)

\* What one call of encrypt leaves in the history.
Produced(plaintext, password, c) ==
  [plain |-> plaintext, secret |-> password,
   salt |-> RandomBytes(SALT_LEN, c), iv |-> RandomBytes(IV_LEN, c + 1),
   token |-> Encrypt(plaintext, password, RandomBytes(SALT_LEN, c),
                     RandomBytes(IV_LEN, c + 1))]

\* ------------------------------------------------------------- the inputs
Longpass1 == <<108, 111, 110, 103, 112, 97, 115, 115, 49>>
Wrongpass == <<119, 114, 111, 110, 103, 112, 97, 115, 115>>
\* "longpass" followed by an unpaired high surrogate, U+D800 and U+D801.
LoneA == <<108, 111, 110, 103, 112, 97, 115, 115, 55296>>
LoneB == <<108, 111, 110, 103, 112, 97, 115, 115, 55297>>
\* "abc": shorter than the minimum length.
Shortpass == <<97, 98, 99>>

Hunter2 == <<104, 117, 110, 116, 101, 114, 50>>

CipherSecrets == {Longpass1, Wrongpass, LoneA, LoneB, Shortpass}

\* "", "hunter2", "é😀", U+FEFF "pw", an unpaired surrogate, "[]".
CipherPlaintexts ==
  {<<>>, Hunter2, <<233, 55357, 56832>>, <<65279, 112, 119>>, <<112, 55357>>,
   <<91, 93>>}

\* How a byte is changed: +1, the top bit, -1.
TamperDeltas == {1, 128, 255}

\* Texts that are no token: "", "!!!!", "A", "QUJD" (3 bytes), and 28 bytes
\* (salt and nonce with nothing after them).
MalformedTokens ==
  {<<>>, <<33, 33, 33, 33>>, <<65>>, <<81, 85, 74, 68>>,
   Btoa(RandomBytes(SALT_LEN + IV_LEN, 1))}

\* ------------------------------------------------ the cipher on its own
NoResult == Throw("")

\* encrypt(hPlain, hSecret), any number of times.
CipherEncrypt ==
  /\ hOp \in {"none", "encrypt"}
  /\ rng + 2 <= MaxDraws
  /\ LET p == Produced(hPlain, hSecret, rng) IN
       /\ hHonest' = Some(p.token)
       /\ produced' = Append(produced, p)
  /\ rng' = rng + 2
  /\ hOp' = "encrypt"
  /\ hToken' = <<>> /\ hWith' = <<>> /\ hPos' = 0
  /\ hResult' = NoResult /\ hLoad' = NoResult
  /\ UNCHANGED <<ids, hPlain, hSecret, storeVars, sideVars>>

\* One call of decrypt ends the run.
CipherCall(op, token, secret, pos) ==
  /\ hOp \in {"none", "encrypt"}
  /\ hOp' = op
  /\ hToken' = token
  /\ hWith' = secret
  /\ hPos' = pos
  /\ hResult' = Decrypt(token, secret)
  /\ hLoad' = GetEntries(Some(token), secret)
  /\ UNCHANGED <<rng, ids, produced, hPlain, hSecret, hHonest, storeVars, sideVars>>

\* decrypt(token, s) for the token encrypt returned and any secret s.
CipherDecrypt ==
  /\ hHonest # Null
  /\ \E s \in CipherSecrets : CipherCall("decrypt", hHonest[1], s, 0)

\* decrypt(T', hSecret) where T' is the token with byte i changed.
CipherTamper ==
  /\ hHonest # Null
  /\ LET bytes == Atob(hHonest[1]).value IN
       \E i \in 1..Len(bytes), d \in TamperDeltas :
         CipherCall("tamper",
                    Btoa([bytes EXCEPT ![i] = (bytes[i] + d) % 256]), hSecret, i)

\* decrypt(t, hSecret) for a text t that no encrypt produced.
CipherMalformed ==
  \E t \in MalformedTokens \cup
           (IF hHonest = Null THEN {} ELSE {SubSeq(hHonest[1], 1, 40)}) :
    CipherCall("malformed", t, hSecret, 0)

\* ------------------------------------------------------------- the stores
Truthy(opt) == opt # Null /\ opt[1] # <<>>

Returned(v) == [ok |-> TRUE, value |-> v, error |-> ""]
Thrown(e) == [ok |-> FALSE, value |-> "", error |-> e]

\* new Date().toISOString() at clock reading t, and the order of two such
\* texts.
ToISOString(t) == <<48 + (t \div 10), 48 + (t % 10)>>
TextLess(a, b) == a[1] < b[1] \/ (a[1] = b[1] /\ a[2] < b[2])

\* crypto.randomUUID(): draw number c of the random source.
RandomUUID(c) == <<105, 100, HexDigit(c \div 16), HexDigit(c % 16)>>

\* uuid_generate_v4() and generateId(): the n-th id a database generates.
GenerateId(n) == <<114, 111, 119, HexDigit(n \div 16), HexDigit(n % 16)>>

\* LocalStorageService.setMasterPassword: the item it stores.
LocalSetMasterPassword(password) == Some(HashPassword(password))

\* LocalStorageService.verifyMasterPassword.
\* A faulty variant of verifyMasterPassword: any password passes once a hash
\* is stored.
LocalVerifyAny(storedHash, password) == Truthy(storedHash)

LocalVerifyMasterPassword(storedHash, password) ==
  IF ~Truthy(storedHash) THEN FALSE
  ELSE HashPassword(password) = storedHash[1]

LocalHasMasterPassword(storedHash) == Truthy(storedHash)

\* ------------------------------------------------------------- bcryptjs
HexBytes(bytes) ==
  Flatten([i \in 1..Len(bytes) |->
             <<HexDigit(bytes[i] \div 16), HexDigit(bytes[i] % 16)>>])

UnhexDigit(c) == IF c <= 57 THEN c - 48 ELSE c - 87

Unhex(text) ==
  [i \in 1..(Len(text) \div 2) |->
     16 * UnhexDigit(text[2 * i - 1]) + UnhexDigit(text[2 * i])]

\* The key bcrypt works from: the encoded password and a terminating zero,
\* read cyclically for the 72 bytes of the Blowfish key schedule.
BcryptKey(password) ==
  LET Cycled(b) == [i \in 1..72 |-> b[((i - 1) % Len(b)) + 1]]
  IN Cycled(Utf8Encode(password) \o <<0>>)

\* bcrypt.hash(password, 10) with the salt it drew: "$2a$10$", salt, digest.
BcryptHash(password, salt) ==
  LET Text(d) ==
        <<36, 50, 97, 36, 49, 48, 36>> \o HexBytes(salt)
          \o HexBytes(<<d \div 256, d % 256>>)
  IN Text(Digest(BcryptKey(password) \o salt))

\* bcrypt.compare: hashes the password with the salt read from the hash.
BcryptCompare(password, hash) ==
  BcryptHash(password, Unhex(SubSeq(hash, 8, 7 + 2 * SALT_LEN))) = hash

\* ---------------------------------------------------- services/auth.ts
\* setMasterPassword: the value the UPDATE writes to master_password_hash.
AuthSetMasterPassword(masterPassword_, salt) == Some(BcryptHash(masterPassword_, salt))

\* A faulty variant of verifyMasterPassword: any password passes once a hash
\* is stored.
AuthVerifyAny(hashColumn, masterPassword_) == Truthy(hashColumn)

AuthVerifyMasterPassword(hashColumn, masterPassword_) ==
  IF ~Truthy(hashColumn) THEN FALSE
  ELSE BcryptCompare(masterPassword_, hashColumn[1])

\* --------------------------------------------------- services/vault.ts
RowToEntry(row) ==
  [title |-> row.title, password |-> row.password, id |-> row.id,
   created_at |-> row.created_at, updated_at |-> row.updated_at]

OwnRows(tbl, userId) == SelectSeq(tbl, LAMBDA r : r.user_id = userId)

\* ORDER BY created_at DESC: the latest first, rows of one instant in the
\* order of insertion.
RECURSIVE OrderByCreatedDesc(_)
OrderByCreatedDesc(rs) ==
  LET First(i) ==
        <<rs[i]>>
          \o OrderByCreatedDesc(SubSeq(rs, 1, i - 1) \o SubSeq(rs, i + 1, Len(rs)))
  IN IF rs = <<>> THEN <<>>
     ELSE First(CHOOSE i \in 1..Len(rs) :
                  /\ \A j \in 1..Len(rs) :
                        ~TextLess(rs[i].created_at, rs[j].created_at)
                  /\ \A j \in 1..(i - 1) :
                        TextLess(rs[j].created_at, rs[i].created_at))

GetPasswordEntries(tbl, userId) ==
  LET Entries(rs) == [i \in 1..Len(rs) |-> RowToEntry(rs[i])]
  IN Entries(OrderByCreatedDesc(OwnRows(tbl, userId)))

GetPasswordEntry(tbl, userId, entryId) ==
  LET Single(rs) == IF rs = <<>> THEN Null ELSE Some(RowToEntry(rs[1]))
  IN Single(SelectSeq(tbl, LAMBDA r : r.id = entryId /\ r.user_id = userId))

\* createPasswordEntry: the INSERT.  data.password goes into the row as it
\* was given.
CreatePasswordEntry(tbl, userId, data, id, now) ==
  Append(tbl, [id |-> id, user_id |-> userId, title |-> data.title,
               password |-> data.password, created_at |-> now,
               updated_at |-> now])

\* A Partial<PasswordEntry>: each field is null (undefined) or a value.
ApplyPatch(r, data) ==
  [r EXCEPT !.title = IF data.title # Null THEN data.title[1] ELSE @,
            !.password = IF data.password # Null THEN data.password[1] ELSE @]

\* updatePasswordEntry: the UPDATE.
UpdatePasswordEntry(tbl, userId, entryId, data, now) ==
  [i \in 1..Len(tbl) |->
     IF tbl[i].id = entryId /\ tbl[i].user_id = userId
     THEN [ApplyPatch(tbl[i], data) EXCEPT !.updated_at = now]
     ELSE tbl[i]]

DeletePasswordEntry(tbl, userId, entryId) ==
  SelectSeq(tbl, LAMBDA r : ~(r.id = entryId /\ r.user_id = userId))

\* --------------------------------------------------------- datasource.ts
\* { ...e, ...entry } for a Partial<PasswordEntry>: every field the patch
\* carries replaces the entry's, the id and the timestamps included.
Spread(e, entry) ==
  [e EXCEPT !.title = IF entry.title # Null THEN entry.title[1] ELSE @,
            !.password = IF entry.password # Null THEN entry.password[1] ELSE @,
            !.id = IF entry.id # Null THEN entry.id[1] ELSE @,
            !.created_at = IF entry.created_at # Null THEN entry.created_at[1] ELSE @,
            !.updated_at = IF entry.updated_at # Null THEN entry.updated_at[1] ELSE @]

LocalDataSource(masterPassword_) ==
  [kind |-> "local", userId |-> "", masterPassword |-> masterPassword_]
SupabaseDataSource(userId, masterPassword_) ==
  [kind |-> "supabase", userId |-> userId, masterPassword |-> masterPassword_]

\* SupabaseDataSource.loadEntries for the session of user uid: the rows the
\* row-level policy shows, each decrypted; one failure fails the whole load.
SupabaseLoadEntries(tbl, uid, masterPassword_) ==
  LET All(rs, dec) ==
        IF \E i \in 1..Len(rs) : ~dec[i].ok
        THEN Throw("Decryption failed. Invalid password or corrupted data.")
        ELSE Ok([i \in 1..Len(rs) |->
                   [RowToEntry(rs[i]) EXCEPT !.password = dec[i].value]])
      Rows(rs) ==
        All(rs, [i \in 1..Len(rs) |-> Decrypt(rs[i].password, masterPassword_)])
  IN Rows(OrderByCreatedDesc(OwnRows(tbl, uid)))

\* SupabaseDataSource.addEntry: the row inserted (id and both timestamps are
\* the table's defaults) and the entry returned.
SupabaseAddEntry(tbl, src, entry, id, now, salt, iv) ==
  LET Inserted(row) ==
        [table |-> Append(tbl, row),
         created |-> [RowToEntry(row) EXCEPT !.password = entry.password]]
  IN Inserted([id |-> id, user_id |-> src.userId, title |-> entry.title,
               password |-> Encrypt(entry.password, src.masterPassword,
                                    salt, iv),
               created_at |-> now, updated_at |-> now])

\* A faulty variant of updateEntry: the payload is written as the caller
\* gave it, its password not encrypted.
SupabaseUpdateEntryPlain(tbl, uid, src, id, entry, now, salt, iv) ==
  [i \in 1..Len(tbl) |->
     IF tbl[i].id = id /\ tbl[i].user_id = uid
     THEN [Spread(tbl[i], entry) EXCEPT !.updated_at = now]
     ELSE tbl[i]]

\* SupabaseDataSource.updateEntry: the password of the patch is encrypted
\* when it is a string, every column of the payload is written, and the
\* table's trigger sets updated_at to now() before the row is written.
SupabaseUpdateEntry(tbl, uid, src, id, entry, now, salt, iv) ==
  LET Updated(payload) ==
        [i \in 1..Len(tbl) |->
           IF tbl[i].id = id /\ tbl[i].user_id = uid
           THEN [Spread(tbl[i], payload) EXCEPT !.updated_at = now]
           ELSE tbl[i]]
  IN Updated(IF entry.password # Null
             THEN [entry EXCEPT !.password =
                     Some(Encrypt(entry.password[1], src.masterPassword,
                                  salt, iv))]
             ELSE entry)

\* The update would give a row the id of another row: the table's primary
\* key refuses it.
SupabaseUpdateConflict(tbl, uid, id, entry) ==
  /\ entry.id # Null
  /\ entry.id[1] # id
  /\ \E i \in 1..Len(tbl) : tbl[i].id = id /\ tbl[i].user_id = uid
  /\ \E j \in 1..Len(tbl) : tbl[j].id = entry.id[1]

SupabaseDeleteEntry(tbl, uid, id) ==
  SelectSeq(tbl, LAMBDA r : ~(r.id = id /\ r.user_id = uid))

\* LocalDataSource.addEntry / updateEntry / deleteEntry: read the stored
\* item, change the list, store it again.  ok is FALSE when the read throws.
LocalDataSourceSave(updated, src, salt, iv) ==
  [ok |-> TRUE, saved |-> updated,
   item |-> Some(SaveEntries(updated, src.masterPassword, salt, iv))]

\* A faulty variant of addEntry: the new entry is saved alone.
LocalDataSourceAddEntryAlone(item, src, entry, id, now, salt, iv) ==
  LET Added(existing, newEntry) ==
        IF ~existing.ok
        THEN [ok |-> FALSE, saved |-> <<>>, item |-> item, created |-> newEntry]
        ELSE [created |-> newEntry]
               @@ LocalDataSourceSave(<<newEntry>>, src, salt, iv)
  IN Added(GetEntries(item, src.masterPassword),
           [title |-> entry.title, password |-> entry.password,
            id |-> id, created_at |-> now, updated_at |-> now])

\* A variant of addEntry that reads the item when it writes, in one step.
LocalDataSourceAddEntryAtomic(item, src, entry, id, now, salt, iv) ==
  LET Added(existing, newEntry) ==
        IF ~existing.ok
        THEN [ok |-> FALSE, saved |-> <<>>, item |-> entriesItem,
              created |-> newEntry]
        ELSE [created |-> newEntry]
               @@ LocalDataSourceSave(<<newEntry>> \o existing.value, src,
                                      salt, iv)
  IN Added(GetEntries(entriesItem, src.masterPassword),
           [title |-> entry.title, password |-> entry.password,
            id |-> id, created_at |-> now, updated_at |-> now])

LocalDataSourceAddEntry(item, src, entry, id, now, salt, iv) ==
  LET Added(existing, newEntry) ==
        IF ~existing.ok
        THEN [ok |-> FALSE, saved |-> <<>>, item |-> item, created |-> newEntry]
        ELSE [created |-> newEntry]
               @@ LocalDataSourceSave(<<newEntry>> \o existing.value, src,
                                      salt, iv)
  IN Added(GetEntries(item, src.masterPassword),
           [title |-> entry.title, password |-> entry.password,
            id |-> id, created_at |-> now, updated_at |-> now])

LocalDataSourceUpdateEntry(item, src, id, entry, now, salt, iv) ==
  LET Updated(existing) ==
        IF ~existing.ok THEN [ok |-> FALSE, saved |-> <<>>, item |-> item]
        ELSE LocalDataSourceSave(
               [i \in 1..Len(existing.value) |->
                  IF existing.value[i].id = id
                  THEN [Spread(existing.value[i], entry)
                          EXCEPT !.updated_at = now]
                  ELSE existing.value[i]],
               src, salt, iv)
  IN Updated(GetEntries(item, src.masterPassword))

\* A faulty variant of deleteEntry: the first entry goes with the addressed
\* one.
LocalDataSourceDeleteEntryWide(item, src, id, salt, iv) ==
  LET Deleted(existing) ==
        IF ~existing.ok THEN [ok |-> FALSE, saved |-> <<>>, item |-> item]
        ELSE LocalDataSourceSave(
               SelectSeq(SubSeq(existing.value, 2, Len(existing.value)),
                         LAMBDA e : e.id # id),
               src, salt, iv)
  IN Deleted(GetEntries(item, src.masterPassword))

LocalDataSourceDeleteEntry(item, src, id, salt, iv) ==
  LET Deleted(existing) ==
        IF ~existing.ok THEN [ok |-> FALSE, saved |-> <<>>, item |-> item]
        ELSE LocalDataSourceSave(SelectSeq(existing.value, LAMBDA e : e.id # id),
                                 src, salt, iv)
  IN Deleted(GetEntries(item, src.masterPassword))

\* ------------------------------------------------------- the stores' inputs
U1 == "u1"

\* 72 times "a" and then "x", or "y": two secrets that agree on their first
\* 72 bytes.
Long73a == [i \in 1..73 |-> IF i = 73 THEN 120 ELSE 97]
Long73b == [i \in 1..73 |-> IF i = 73 THEN 121 ELSE 97]

\* The secrets a user types, by build.
Secrets ==
  IF build = "guest" THEN {Longpass1, LoneA, LoneB}
  ELSE IF build = "cloud" THEN {Longpass1, Shortpass}
  ELSE IF build = "both" THEN {Longpass1, Wrongpass}
  ELSE IF build = "session" THEN {Longpass1}
  ELSE IF build = "remote" THEN {Longpass1}
  ELSE {Shortpass, Long73a, Long73b}

\* VaultContext.tsx runs in the builds with and without Supabase.  The build
\* with Supabase is followed through its sign-in ("cloud"), and through both
\* its sign-in and its guest mode with fewer inputs ("both"); the build
\* without Supabase is also followed with a guest's calls in flight
\* ("session"), the build with Supabase also with a signed-in user alone and
\* more draws ("remote").
VaultBuild == build \in {"guest", "cloud", "both", "session", "remote"}

\* Number of draws a signed-in user's calls may make.
RemoteDrawLimit == IF build = "remote" THEN MaxRemoteDraws ELSE MaxDraws

\* App.tsx shows the welcome screen, and nothing of the vault, while there is
\* neither a user nor a guest: the vault's functions are called from the
\* screens behind it.
VaultShown == VaultBuild /\ (user # Null \/ isGuest)

\* The unified application shows its dashboard to an authenticated user.
DashboardShown == build = "unified" /\ user # Null

\* The entry a caller adds: title "t", password "hunter2".
NewEntries == {[title |-> <<116>>, password |-> Hunter2]}

\* The patches a caller applies: a new password "new", or a new title "u".
NoPatch ==
  [title |-> Null, password |-> Null, id |-> Null, created_at |-> Null,
   updated_at |-> Null]

Patches ==
  {[NoPatch EXCEPT !.password = Some(<<110, 101, 119>>)],
   [NoPatch EXCEPT !.title = Some(<<117>>)]}

\* Patches that carry a timestamp, as Partial<PasswordEntry> allows: a
\* created_at of "09", an updated_at of "00".
StampPatches ==
  {[NoPatch EXCEPT !.created_at = Some(<<48, 57>>)],
   [NoPatch EXCEPT !.updated_at = Some(<<48, 48>>)]}

\* An id no entry has.
MissingId == <<122, 122>>

\* Patches that carry the id of another entry.
IdPatches(id) ==
  {[NoPatch EXCEPT !.id = Some(k)] :
     k \in ({entries[i].id : i \in 1..Len(entries)}
              \cup {passwordEntries[i].id : i \in 1..Len(passwordEntries)})
            \ {id}}

KnownIds ==
  {entries[i].id : i \in 1..Len(entries)}
    \cup {passwordEntries[i].id : i \in 1..Len(passwordEntries)}
    \cup {MissingId}

\* The clock does not run backwards; two readings may coincide.
NowChoices == {t \in {clock, clock + 1} : t <= MaxClock}

\* The record of a call: its role, its argument, its outcome, and how many
\* failed verifications in a row it ends (or, when it passed, follows).
Ret(op, arg, out) == [op |-> op, arg |-> arg, out |-> out, failed |-> 0]

NoCall == Ret("none", <<>>, Returned("void"))

FailedVerify(r) == r.op = "verify" /\ (~r.out.ok \/ r.out.value = "false")

Failed(op, arg, out) ==
  [op |-> op, arg |-> arg, out |-> out,
   failed |-> IF ~FailedVerify(ret) THEN 1
              ELSE IF ret.failed < MaxFailures THEN ret.failed + 1
              ELSE ret.failed]

Passed(op, arg, out) ==
  [op |-> op, arg |-> arg, out |-> out,
   failed |-> IF FailedVerify(ret) THEN ret.failed ELSE 0]

\* What one call of encrypt leaves in the history, given the token it made.
Record(plaintext, password, c, token) ==
  [plain |-> plaintext, secret |-> password,
   salt |-> RandomBytes(SALT_LEN, c), iv |-> RandomBytes(IV_LEN, c + 1),
   token |-> token]

\* ------------------------------------------- VaultContext.tsx (cloud build)
\* The body of the provider's effect for the values u, g, mp of user,
\* isGuest and masterPassword, from entries es, data source ds, error err;
\* localLoad is what LocalStorageService.getEntries(mp) yields.
VaultEffect(u, g, mp, es, ds, err, localLoad, tbl) ==
  LET Loaded(src, r) ==
        [dataSource |-> Some(src),
         entries |-> IF r.ok THEN r.value ELSE es,
         error |-> IF r.ok THEN err ELSE Some(r.error)]
  IN IF g /\ Truthy(mp) THEN Loaded(LocalDataSource(mp[1]), localLoad)
     ELSE IF ~g /\ u # Null /\ Truthy(mp)
       THEN Loaded(SupabaseDataSource(u[1], mp[1]),
                   SupabaseLoadEntries(tbl, u[1], mp[1]))
     ELSE [dataSource |-> ds, entries |-> es, error |-> err]

\* The effect runs when one of its dependencies has changed.
VaultSettle(u, g, mp, es, ds, err, localLoad, tbl) ==
  IF <<u, g, mp>> = <<user, isGuest, masterPassword>>
  THEN [dataSource |-> ds, entries |-> es, error |-> err]
  ELSE VaultEffect(u, g, mp, es, ds, err, localLoad, tbl)

\* AuthProvider.continueAsGuest, called from the welcome screen.
ContinueAsGuest ==
  /\ build \in {"guest", "both", "session"}
  /\ user = Null /\ ~isGuest
  /\ isGuest' = TRUE
  /\ \E eff \in {VaultSettle(user, TRUE, masterPassword, entries, dataSource,
                             error, GetEntries(entriesItem, masterPassword[1]),
                             passwordEntries)} :
       /\ entries' = eff.entries
       /\ dataSource' = eff.dataSource
       /\ error' = eff.error
  /\ ret' = NoCall
  /\ UNCHANGED <<rng, ids, produced, runVars, build, clock, user, masterPassword,
                 isMasterPasswordVerified, masterHashItem, entriesItem,
                 passwordEntries, masterPasswordHash, createdFrom>>

\* AuthProvider.signIn and the onAuthStateChange callback that follows it.
\* Without Supabase signIn only throws.
SignIn ==
  /\ build \in {"cloud", "both", "remote"}
  /\ user = Null
  /\ user' = Some(U1)
  /\ isGuest' = FALSE
  /\ \E eff \in {VaultSettle(Some(U1), FALSE, masterPassword, entries,
                             dataSource, error, Ok(<<>>), passwordEntries)} :
       /\ entries' = eff.entries
       /\ dataSource' = eff.dataSource
       /\ error' = eff.error
  /\ ret' = NoCall
  /\ UNCHANGED <<rng, ids, produced, runVars, build, clock, masterPassword,
                 isMasterPasswordVerified, masterHashItem, entriesItem,
                 passwordEntries, masterPasswordHash, createdFrom>>

\* AuthProvider.signOut and the onAuthStateChange callback that follows it.
\* The vault provider's state is not touched.
SignOut ==
  /\ VaultBuild
  /\ user # Null \/ isGuest
  /\ user' = Null
  /\ isGuest' = FALSE
  /\ ret' = NoCall
  /\ UNCHANGED <<rng, ids, produced, runVars, build, clock, masterPassword,
                 entries, dataSource, error, isMasterPasswordVerified,
                 masterHashItem, entriesItem, passwordEntries,
                 masterPasswordHash, createdFrom>>

\* A guest branch that caches the secret before its verification is looked
\* at: an invalid secret still throws, with the secret left in the cache.
GuestSetMasterPasswordEager(password, has, isValid) ==
  \E role \in {IF has THEN "verify" ELSE "create"} :
  \E loaded \in {GetEntries(entriesItem, password)} :
  \E eff \in {VaultSettle(user, isGuest, Some(password),
                IF loaded.ok THEN loaded.value ELSE entries,
                dataSource,
                IF loaded.ok THEN error ELSE Some(loaded.error),
                loaded, passwordEntries)} :
    /\ masterHashItem' =
         IF has THEN masterHashItem ELSE LocalSetMasterPassword(password)
    /\ createdFrom' = IF has THEN createdFrom ELSE Some(password)
    /\ masterPassword' = Some(password)
    /\ entries' = eff.entries
    /\ dataSource' = eff.dataSource
    /\ error' = eff.error
    /\ ret' = IF isValid THEN Passed(role, password, Returned("void"))
              ELSE Failed(role, password, Thrown("Invalid master password"))

\* VaultProvider.setMasterPassword in guest mode: has and isValid are what
\* hasMasterPassword() and the verification (or true) gave.
GuestSetMasterPassword(password, has, isValid) ==
  \E role \in {IF has THEN "verify" ELSE "create"} :
    IF ~isValid THEN
      /\ ret' = Failed(role, password, Thrown("Invalid master password"))
      /\ UNCHANGED <<masterHashItem, createdFrom, masterPassword, entries,
                     dataSource, error>>
    ELSE
      \E loaded \in {GetEntries(entriesItem, password)} :
      \E eff \in {VaultSettle(user, isGuest, Some(password),
                    IF loaded.ok THEN loaded.value ELSE entries,
                    dataSource,
                    IF loaded.ok THEN error ELSE Some(loaded.error),
                    loaded, passwordEntries)} :
        /\ masterHashItem' =
             IF has THEN masterHashItem ELSE LocalSetMasterPassword(password)
        /\ createdFrom' = IF has THEN createdFrom ELSE Some(password)
        /\ masterPassword' = Some(password)
        /\ entries' = eff.entries
        /\ dataSource' = eff.dataSource
        /\ error' = eff.error
        /\ ret' = Passed(role, password, Returned("void"))

\* VaultProvider.setMasterPassword.
VaultSetMasterPassword(password) ==
  /\ VaultShown
  /\ IF isGuest THEN
       \E has \in {LocalHasMasterPassword(masterHashItem)} :
         GuestSetMasterPassword(password, has,
           IF has THEN LocalVerifyMasterPassword(masterHashItem, password)
           ELSE TRUE)
     ELSE
       \E eff \in {VaultSettle(user, isGuest, Some(password), entries,
                     IF user # Null
                     THEN Some(SupabaseDataSource(user[1], password))
                     ELSE dataSource,
                     error, Ok(<<>>), passwordEntries)} :
         /\ masterPassword' = Some(password)
         /\ entries' = eff.entries
         /\ dataSource' = eff.dataSource
         /\ error' = eff.error
         /\ ret' = Ret("cache", password, Returned("void"))
         /\ UNCHANGED <<masterHashItem, createdFrom>>
  /\ UNCHANGED <<rng, ids, produced, runVars, build, clock, user, isGuest,
                 isMasterPasswordVerified, entriesItem, passwordEntries,
                 masterPasswordHash>>

\* The guest branch of addEntry, updateEntry and deleteEntry from the list
\* it saves on: LocalStorageService.saveEntries with draws c and c + 1, then
\* setEntries; spent is the number of draws the call has made.
GuestSave(op, arg, updatedEntries, c, spent) ==
  /\ rng + spent <= MaxDraws
  /\ rng' = rng + spent
  /\ \E encrypted \in {SaveEntries(updatedEntries, masterPassword[1],
                                   RandomBytes(SALT_LEN, c),
                                   RandomBytes(IV_LEN, c + 1))} :
       /\ entriesItem' = Some(encrypted)
       /\ produced' = Append(produced,
            Record(JsonStringify(EntriesToJson(updatedEntries)),
                   masterPassword[1], c, encrypted))
  /\ entries' = updatedEntries
  /\ ret' = Ret(op, arg, Returned("void"))
  /\ UNCHANGED passwordEntries

\* The same calls through a LocalDataSource, r being what the data source
\* did and shown the list the provider then shows.
LocalSourceSave(op, arg, r, shown, c, spent, spentFailed) ==
  /\ rng + spent <= MaxDraws
  /\ rng' = IF r.ok THEN rng + spent ELSE rng + spentFailed
  /\ entriesItem' = r.item
  /\ produced' =
       IF r.ok
       THEN Append(produced,
              Record(JsonStringify(EntriesToJson(r.saved)),
                     dataSource[1].masterPassword, c, r.item[1]))
       ELSE produced
  /\ entries' = IF r.ok THEN shown ELSE entries
  /\ ret' = Ret(op, arg,
                IF r.ok THEN Returned("void")
                ELSE Thrown("Invalid master password"))
  /\ UNCHANGED passwordEntries

\* The calls with neither a guest's password nor a data source: nothing
\* happens.
NoStore(op, arg) ==
  /\ ret' = Ret(op, arg, Returned("void"))
  /\ UNCHANGED <<rng, produced, entries, entriesItem, passwordEntries>>

\* VaultProvider.addEntry.
VaultAddEntry(entry) ==
  /\ VaultShown
  /\ \E now \in NowChoices :
     /\ clock' = now
     /\ IF isGuest /\ Truthy(masterPassword) THEN
          /\ Len(entries) < MaxEntries
          /\ GuestSave("addEntry", <<>>,
               <<[title |-> entry.title, password |-> entry.password,
                  id |-> RandomUUID(rng),
                  created_at |-> ToISOString(now),
                  updated_at |-> ToISOString(now)]>> \o entries,
               rng + 1, 3)
          /\ UNCHANGED ids
        ELSE IF dataSource # Null /\ user # Null THEN
          IF dataSource[1].kind = "supabase" THEN
            /\ rng + 2 <= RemoteDrawLimit
            /\ ids < MaxIds
            /\ rng' = rng + 2
            /\ ids' = ids + 1
            /\ \E r \in {SupabaseAddEntry(passwordEntries, dataSource[1], entry,
                           GenerateId(ids), ToISOString(now),
                           RandomBytes(SALT_LEN, rng),
                           RandomBytes(IV_LEN, rng + 1))} :
                 /\ passwordEntries' = r.table
                 /\ produced' = Append(produced,
                      Record(entry.password, dataSource[1].masterPassword, rng,
                             r.table[Len(r.table)].password))
                 /\ entries' = <<r.created>> \o entries
            /\ ret' = Ret("addEntry", <<>>, Returned("void"))
            /\ UNCHANGED entriesItem
          ELSE
            /\ \E r \in {LocalDataSourceAddEntry(entriesItem, dataSource[1],
                           entry, RandomUUID(rng), ToISOString(now),
                           RandomBytes(SALT_LEN, rng + 1),
                           RandomBytes(IV_LEN, rng + 2))} :
                 LocalSourceSave("addEntry", <<>>, r, <<r.created>> \o entries,
                                 rng + 1, 3, 1)
            /\ UNCHANGED ids
        ELSE
          /\ now = clock
          /\ NoStore("addEntry", <<>>)
          /\ UNCHANGED ids
  /\ UNCHANGED <<runVars, build, user, isGuest, masterPassword, dataSource,
                 error, isMasterPasswordVerified, masterHashItem,
                 masterPasswordHash, createdFrom>>
\* entries.map(e => e.id === id ? {...e, ...entry} : e).
Patched(es, id, entry) ==
  [i \in 1..Len(es) |->
     IF es[i].id = id THEN Spread(es[i], entry) ELSE es[i]]

\* VaultProvider.updateEntry.
VaultUpdateEntry(id, entry) ==
  /\ VaultShown
  /\ \E now \in NowChoices :
     /\ clock' = now
     /\ IF isGuest /\ Truthy(masterPassword) THEN
          GuestSave("updateEntry", id,
            [i \in 1..Len(entries) |->
               IF entries[i].id = id
               THEN [Spread(entries[i], entry)
                       EXCEPT !.updated_at = ToISOString(now)]
               ELSE entries[i]],
            rng, 2)
        ELSE IF dataSource # Null /\ user # Null THEN
          IF dataSource[1].kind = "supabase" THEN
            /\ \E draws \in {IF entry.password # Null THEN 2 ELSE 0} :
                 /\ rng + draws <= RemoteDrawLimit
                 /\ rng' = rng + draws
            /\ \E tbl \in {SupabaseUpdateEntry(passwordEntries, user[1],
                             dataSource[1], id, entry, ToISOString(now),
                             RandomBytes(SALT_LEN, rng),
                             RandomBytes(IV_LEN, rng + 1))} :
                 /\ passwordEntries' =
                      IF SupabaseUpdateConflict(passwordEntries, user[1], id, entry)
                      THEN passwordEntries ELSE tbl
                 /\ produced' =
                      IF entry.password # Null
                      THEN Append(produced,
                             Record(entry.password[1],
                                    dataSource[1].masterPassword, rng,
                                    Encrypt(entry.password[1],
                                            dataSource[1].masterPassword,
                                            RandomBytes(SALT_LEN, rng),
                                            RandomBytes(IV_LEN, rng + 1))))
                      ELSE produced
            /\ IF SupabaseUpdateConflict(passwordEntries, user[1], id, entry)
               THEN /\ entries' = entries
                    /\ ret' = Ret("updateEntry", id,
                                  Thrown("duplicate key value violates unique constraint"))
               ELSE /\ entries' = Patched(entries, id, entry)
                    /\ ret' = Ret("updateEntry", id, Returned("void"))
            /\ UNCHANGED entriesItem
          ELSE
            \E r \in {LocalDataSourceUpdateEntry(entriesItem, dataSource[1], id,
                        entry, ToISOString(now), RandomBytes(SALT_LEN, rng),
                        RandomBytes(IV_LEN, rng + 1))} :
              LocalSourceSave("updateEntry", id, r, Patched(entries, id, entry),
                              rng, 2, 0)
        ELSE
          /\ now = clock
          /\ NoStore("updateEntry", id)
  /\ UNCHANGED <<ids, runVars, build, user, isGuest, masterPassword, dataSource,
                 error, isMasterPasswordVerified, masterHashItem,
                 masterPasswordHash, createdFrom>>

\* VaultProvider.deleteEntry.
VaultDeleteEntry(id) ==
  /\ VaultShown
  /\ IF isGuest /\ Truthy(masterPassword) THEN
       GuestSave("deleteEntry", id, SelectSeq(entries, LAMBDA e : e.id # id),
                 rng, 2)
     ELSE IF dataSource # Null /\ user # Null THEN
       IF dataSource[1].kind = "supabase" THEN
         /\ passwordEntries' = SupabaseDeleteEntry(passwordEntries, user[1], id)
         /\ entries' = SelectSeq(entries, LAMBDA e : e.id # id)
         /\ ret' = Ret("deleteEntry", id, Returned("void"))
         /\ UNCHANGED <<rng, produced, entriesItem>>
       ELSE
         \E r \in {LocalDataSourceDeleteEntry(entriesItem, dataSource[1], id,
                     RandomBytes(SALT_LEN, rng), RandomBytes(IV_LEN, rng + 1))} :
           LocalSourceSave("deleteEntry", id, r,
                           SelectSeq(entries, LAMBDA e : e.id # id), rng, 2, 0)
     ELSE NoStore("deleteEntry", id)
  /\ UNCHANGED <<ids, runVars, build, clock, user, isGuest, masterPassword,
                 dataSource, error, isMasterPasswordVerified, masterHashItem,
                 masterPasswordHash, createdFrom>>

\* VaultProvider.refreshEntries.
VaultRefreshEntries ==
  /\ VaultShown
  /\ \E r \in {IF dataSource # Null /\ user # Null /\ ~isGuest
                THEN IF dataSource[1].kind = "supabase"
                     THEN SupabaseLoadEntries(passwordEntries, user[1],
                                              dataSource[1].masterPassword)
                     ELSE GetEntries(entriesItem, dataSource[1].masterPassword)
                ELSE IF isGuest /\ Truthy(masterPassword)
                THEN GetEntries(entriesItem, masterPassword[1])
                ELSE Ok(entries)} :
       /\ entries' = IF r.ok THEN r.value ELSE entries
       /\ error' = IF r.ok THEN error ELSE Some(r.error)
  /\ ret' = Ret("loadEntries", <<>>, Returned("void"))
  /\ UNCHANGED <<rng, ids, produced, runVars, build, clock, user, isGuest,
                 masterPassword, dataSource, isMasterPasswordVerified,
                 masterHashItem, entriesItem, passwordEntries,
                 masterPasswordHash, createdFrom>>

\* ------------------------------------ VaultContext.tsx, calls in flight
\* A guest's session in which a handler may be called while an earlier call
\* still awaits saveEntries.  A call runs to that await when it is made: it
\* has built the new list from the entries of the render it was made in,
\* and encrypt has drawn its salt and nonce.  The rest (storing the token,
\* setEntries) runs when the call is settled, and calls are settled in any
\* order.  The run is short enough for the clock to keep its reading.
SessionCallers == 1..3

\* Number of values the random source hands out in such a session.
MaxSessionDraws == 8

\* A call: its handler, the id it names (or drew), the list it built, the
\* secret of its render, and the draw its salt is.
IdleCall ==
  [pc |-> "idle", op |-> "none", id |-> <<>>, updated |-> <<>>,
   secret |-> <<>>, c |-> 0]

\* A handler is called in guest mode with a cached secret.
GuestCall(t, op, id, updatedEntries, c, spent) ==
  /\ build = "session"
  /\ isGuest /\ Truthy(masterPassword)
  /\ calls[t].pc = "idle"
  /\ rng + spent <= MaxSessionDraws
  /\ rng' = rng + spent
  /\ calls' = [calls EXCEPT ![t] =
       [pc |-> "called", op |-> op, id |-> id, updated |-> updatedEntries,
        secret |-> masterPassword[1], c |-> c]]
  /\ UNCHANGED <<ids, produced, cipherVars, tasks, gPassword, gStrength, gSeen,
                 storeVars>>

\* VaultProvider.addEntry, to its await.
GuestAddEntry(t, entry) ==
  GuestCall(t, "addEntry", RandomUUID(rng),
            <<[title |-> entry.title, password |-> entry.password,
               id |-> RandomUUID(rng),
               created_at |-> ToISOString(clock),
               updated_at |-> ToISOString(clock)]>> \o entries,
            rng + 1, 3)

\* VaultProvider.updateEntry, to its await.
GuestUpdateEntry(t, id, entry) ==
  GuestCall(t, "updateEntry", id,
            [i \in 1..Len(entries) |->
               IF entries[i].id = id
               THEN [Spread(entries[i], entry)
                       EXCEPT !.updated_at = ToISOString(clock)]
               ELSE entries[i]],
            rng, 2)

\* VaultProvider.deleteEntry, to its await.
GuestDeleteEntry(t, id) ==
  GuestCall(t, "deleteEntry", id, SelectSeq(entries, LAMBDA e : e.id # id),
            rng, 2)

\* The call of caller t runs to its end: saveEntries stores the token and
\* the handler sets the entries.
GuestSettle(t) ==
  /\ build = "session"
  /\ calls[t].pc = "called"
  /\ \E call \in {calls[t]} :
     \E encrypted \in {SaveEntries(call.updated, call.secret,
                                   RandomBytes(SALT_LEN, call.c),
                                   RandomBytes(IV_LEN, call.c + 1))} :
       /\ entriesItem' = Some(encrypted)
       /\ produced' = Append(produced,
            Record(JsonStringify(EntriesToJson(call.updated)), call.secret,
                   call.c, encrypted))
       /\ entries' = call.updated
       /\ ret' = Ret(call.op, call.id, Returned("void"))
  /\ calls' = [calls EXCEPT ![t] = [@ EXCEPT !.pc = "done"]]
  /\ UNCHANGED <<rng, ids, cipherVars, tasks, gPassword, gStrength, gSeen,
                 build, clock, user, isGuest, masterPassword, dataSource,
                 error, isMasterPasswordVerified, masterHashItem,
                 passwordEntries, masterPasswordHash, createdFrom>>
\* --------------------------------------- the LocalDataSource on its own
\* Two callers use LocalDataSource objects on the one stored item.  A call
\* runs to its first await when it is made: addEntry has drawn its id and
\* read the clock, and getEntries has read the item.  The rest (decrypting
\* what was read, encrypting the new list, storing it) runs when the call is
\* settled, and calls are settled in any order.  The run is short enough
\* for the clock to keep its reading.
Callers == 1..2

\* The secrets the data sources are constructed with: the vault's, and for
\* reading another one.
LocalSecrets == {Longpass1, Wrongpass}

\* The entries a caller adds in this run: title "t" and password "hunter2",
\* or a password of a byte order mark, a quote and an unpaired surrogate.
LocalNewEntries ==
  NewEntries \cup {[title |-> <<116>>, password |-> <<65279, 34, 55357>>]}

\* The patch a caller applies in this run: a new password "new".
LocalPatches == {[NoPatch EXCEPT !.password = Some(<<110, 101, 119>>)]}

\* Number of values the random source hands out in a run of the data source.
MaxLocalDraws == 6
\* Number of calls made in a run of the data source.
MaxLocalCalls == 3

\* The same data source with one caller whose calls follow one another: a
\* longer run, with more draws.
MaxSerialDraws == 11
MaxSerialCalls == 4

\* The builds that run the data source on its own, and their limits.
LocalBuild == build \in {"local", "serial"}
CallLimit == IF build = "serial" THEN MaxSerialCalls ELSE MaxLocalCalls
DrawLimit == IF build = "serial" THEN MaxSerialDraws ELSE MaxLocalDraws

\* A caller: its call (pc, op, the data source's secret, the id and entry of
\* the call, the clock it read, the item getEntries read), what the call
\* gave back, and the number of calls made so far.
IdleTask ==
  [pc |-> "idle", op |-> "none", secret |-> <<>>, id |-> <<>>,
   entry |-> <<>>, now |-> 0, item |-> Null, out |-> NoResult, n |-> 0]

\* The calls made so far.
RECURSIVE CallsMade(_)
CallsMade(t) == IF t = 0 THEN 0 ELSE tasks[t].n + CallsMade(t - 1)

\* The draws the calls in flight will still make.
PendingDraws ==
  2 * Cardinality({t \in Callers :
                     tasks[t].pc = "called" /\ tasks[t].op # "loadEntries"})

\* The ids a caller may name: those of the calls made, and one no entry has.
LocalIds == ({tasks[t].id : t \in Callers} \ {<<>>}) \cup {MissingId}

\* A call is made: what it has done when it reaches its first await.
LocalCall(t, op, secret, id, entry, now, draws) ==
  /\ LocalBuild
  /\ tasks[t].pc # "called"
  /\ CallsMade(2) < CallLimit
  /\ rng + PendingDraws + draws <= DrawLimit
  /\ tasks' = [tasks EXCEPT ![t] =
       [pc |-> "called", op |-> op, secret |-> secret, id |-> id,
        entry |-> entry, now |-> now, item |-> entriesItem, out |-> NoResult,
        n |-> tasks[t].n + 1]]
  /\ UNCHANGED <<ids, produced, cipherVars, gPassword, gStrength, gSeen, calls, build, clock, user,
                 isGuest, masterPassword, entries, dataSource, error,
                 isMasterPasswordVerified, masterHashItem, entriesItem,
                 passwordEntries, masterPasswordHash, ret, createdFrom>>

\* new LocalDataSource(secret).loadEntries().
LocalLoadEntries(t, secret) ==
  /\ LocalCall(t, "loadEntries", secret, <<>>, <<>>, clock, 0)
  /\ UNCHANGED rng

\* new LocalDataSource(secret).addEntry(entry).
LocalAddEntry(t, secret, entry) ==
  /\ LocalCall(t, "addEntry", secret, RandomUUID(rng), entry, clock, 3)
  /\ rng' = rng + 1

\* new LocalDataSource(secret).updateEntry(id, entry).
LocalUpdateEntry(t, secret, id, entry) ==
  /\ LocalCall(t, "updateEntry", secret, id, entry, clock, 2)
  /\ UNCHANGED rng

\* new LocalDataSource(secret).deleteEntry(id).
LocalDeleteEntry(t, secret, id) ==
  /\ LocalCall(t, "deleteEntry", secret, id, <<>>, clock, 2)
  /\ UNCHANGED rng

\* What a settled call of the data source did: r.ok, the item now stored,
\* the list saved, and what the call gives back.
LocalSettled(t, r, value) ==
  /\ tasks' = [tasks EXCEPT ![t] =
       [@ EXCEPT !.pc = "done",
                 !.out = IF r.ok THEN Ok(value)
                         ELSE Throw("Invalid master password")]]
  /\ entriesItem' = r.item
  /\ rng' = IF r.ok THEN rng + 2 ELSE rng
  /\ produced' =
       IF r.ok
       THEN Append(produced,
              Record(JsonStringify(EntriesToJson(r.saved)), tasks[t].secret,
                     rng, r.item[1]))
       ELSE produced

\* The call of caller t runs to its end.
LocalSettle(t) ==
  /\ LocalBuild
  /\ tasks[t].pc = "called"
  /\ \E task \in {tasks[t]} :
     \E src \in {LocalDataSource(task.secret)} :
       IF task.op = "loadEntries" THEN
         /\ tasks' = [tasks EXCEPT ![t] =
              [@ EXCEPT !.pc = "done",
                        !.out = GetEntries(task.item, task.secret)]]
         /\ UNCHANGED <<rng, produced, entriesItem>>
       ELSE IF task.op = "addEntry" THEN
         \E r \in {LocalDataSourceAddEntry(task.item, src, task.entry, task.id,
                     ToISOString(task.now), RandomBytes(SALT_LEN, rng),
                     RandomBytes(IV_LEN, rng + 1))} :
           LocalSettled(t, r, r.created)
       ELSE IF task.op = "updateEntry" THEN
         \E r \in {LocalDataSourceUpdateEntry(task.item, src, task.id,
                     task.entry, ToISOString(clock),
                     RandomBytes(SALT_LEN, rng), RandomBytes(IV_LEN, rng + 1))} :
           LocalSettled(t, r, "void")
       ELSE
         \E r \in {LocalDataSourceDeleteEntry(task.item, src, task.id,
                     RandomBytes(SALT_LEN, rng), RandomBytes(IV_LEN, rng + 1))} :
           LocalSettled(t, r, "void")
  /\ UNCHANGED <<ids, cipherVars, gPassword, gStrength, gSeen, calls, build, clock, user,
                 isGuest, masterPassword, entries, dataSource, error,
                 isMasterPasswordVerified, masterHashItem, passwordEntries,
                 masterPasswordHash, ret, createdFrom>>

\* What may become of the stored item behind the application's back: one
\* byte changed (the first of the salt, of the nonce, of the ciphertext, the
\* last of the tag), the item cut short, the item emptied.
Corrupted(token) ==
  LET Changed(bytes) ==
        {Btoa([bytes EXCEPT ![i] = (bytes[i] + 1) % 256]) :
           i \in {1, SALT_LEN + 1, SALT_LEN + IV_LEN + 1, Len(bytes)}}
  IN Changed(Atob(token).value) \cup {SubSeq(token, 1, 40), <<>>}

\* The stored item is damaged, once.
LocalCorrupt ==
  /\ build = "local"
  /\ entriesItem # Null
  /\ \E i \in 1..Len(produced) : produced[i].token = entriesItem[1]
  /\ \E bad \in Corrupted(entriesItem[1]) : entriesItem' = Some(bad)
  /\ UNCHANGED <<rng, ids, produced, runVars, build, clock, user, isGuest,
                 masterPassword, entries, dataSource, error,
                 isMasterPasswordVerified, masterHashItem, passwordEntries,
                 masterPasswordHash, ret, createdFrom>>

\* The ids the one caller names: those the first two of three adds in a row
\* draw (draws 0 and 3), and one no entry has.
SerialIds == {RandomUUID(0), RandomUUID(3), MissingId}

\* The patches of the one caller: a new password, or the id of the first
\* entry added.
SerialPatches == LocalPatches \cup {[NoPatch EXCEPT !.id = Some(RandomUUID(0))]}

\* No run of the data source or of the generator.
SideIdle ==
  /\ tasks = [t \in Callers |-> IdleTask]
  /\ gPassword = <<>>
  /\ gStrength = Null
  /\ gSeen = {}
  /\ calls = [t \in SessionCallers |-> IdleCall]

\* ------------------------------------------------ lib/passwordGenerator.ts
\* The character classes of calculateStrength's regular expressions.
IsLower(c) == c >= 97 /\ c <= 122
IsUpper(c) == c >= 65 /\ c <= 90
IsDigit(c) == c >= 48 /\ c <= 57
IsOther(c) == ~IsLower(c) /\ ~IsUpper(c) /\ ~IsDigit(c)

\* What `.` does not match: the line terminators.
IsLineTerminator(c) == c \in {10, 13, 8232, 8233}

\* Whether code unit c is of class x.
InClass(c, x) ==
  IF x = "a-z" THEN IsLower(c)
  ELSE IF x = "A-Z" THEN IsUpper(c)
  ELSE IF x = "0-9" THEN IsDigit(c)
  ELSE IsOther(c)

\* /[x]/.test(password) for a class x.
TestOne(password, x) == \E i \in 1..Len(password) : InClass(password[i], x)

\* /[x].*[x]/.test(password): two code units of the class with nothing but
\* matches of `.` between them.
TestTwo(password, x) ==
  \E i \in 1..Len(password), j \in 1..Len(password) :
    /\ i < j
    /\ InClass(password[i], x) /\ InClass(password[j], x)
    /\ \A k \in (i + 1)..(j - 1) : ~IsLineTerminator(password[k])

\* Every condition taken to hold.
PlusAlways(n, condition) == n

\* score += n when the condition holds.
Plus(n, condition) == IF condition THEN n ELSE 0

\* PasswordGenerator.calculateStrength.
CalculateStrength(password) ==
  LET Labelled(score) ==
        IF score >= 80
        THEN [score |-> score, label |-> "Strong", color |-> "#059669"]
        ELSE IF score >= 60
        THEN [score |-> score, label |-> "Good", color |-> "#3B82F6"]
        ELSE IF score >= 40
        THEN [score |-> score, label |-> "Fair", color |-> "#F59E0B"]
        ELSE [score |-> score, label |-> "Weak", color |-> "#EF4444"]
      Capped(score) == Labelled(IF score < 100 THEN score ELSE 100)
  IN Capped(Plus(20, Len(password) >= 8)
              + Plus(15, Len(password) >= 12)
              + Plus(15, Len(password) >= 16)
              + Plus(10, TestOne(password, "a-z"))
              + Plus(10, TestOne(password, "A-Z"))
              + Plus(10, TestOne(password, "0-9"))
              + Plus(10, TestOne(password, "^a-zA-Z0-9"))
              + Plus(5, TestTwo(password, "a-z"))
              + Plus(5, TestTwo(password, "A-Z"))
              + Plus(5, TestTwo(password, "0-9"))
              + Plus(5, TestTwo(password, "^a-zA-Z0-9")))

\* The passwords handed to calculateStrength: up to MaxHead code units of
\* "a", "Z", "5", "!" and a line feed, followed by none, 5, 9 or 13 times one
\* of them, so that the lengths lie on both sides of 8, 12 and 16.
MaxHead == 3

GenAlphabet == {97, 90, 53, 33, 10}

RECURSIVE GenHeads(_)
GenHeads(n) ==
  IF n = 0 THEN {<<>>}
  ELSE GenHeads(n - 1)
         \cup {Append(h, c) : h \in GenHeads(n - 1), c \in GenAlphabet}

GenPasswords ==
  {h \o [i \in 1..k |-> c] :
     h \in GenHeads(MaxHead), c \in GenAlphabet, k \in {0, 5, 9, 13}}

\* calculateStrength(gPassword).
GenCalculateStrength ==
  /\ build = "generator"
  /\ gStrength = Null
  /\ gStrength' = Some(CalculateStrength(gPassword))
  /\ UNCHANGED <<rng, ids, produced, cipherVars, storeVars, tasks, gPassword, gSeen, calls>>


\* The passwords typed into the entry form: the three of the ordering, and
\* one of sixteen code units with every class twice.
FormPasswords ==
  {<<97>>,
   <<97, 97, 97, 97, 97, 97, 97, 97>>,
   <<65, 97, 49, 33, 97, 97, 97, 97>>,
   <<65, 65, 97, 97, 49, 49, 33, 33, 97, 97, 97, 97, 97, 97, 97, 97>>}

\* PasswordEntryForm: the password field changes and the form shows the
\* strength of the new password.
FormSetPassword ==
  /\ build = "generator"
  /\ \E password \in FormPasswords :
       /\ password # gPassword
       /\ gPassword' = password
       /\ \E strength \in {CalculateStrength(password)} :
            /\ gStrength' = Some(strength)
            /\ gSeen' = gSeen \cup {[password |-> password, score |-> strength.score]}
  /\ UNCHANGED <<rng, ids, produced, cipherVars, storeVars, tasks, calls>>

\* ---------------------- BirthdayContext.tsx VaultProvider (unified build)
\* AuthProvider.login of the registered user.
Login ==
  /\ build = "unified"
  /\ user = Null
  /\ user' = Some(U1)
  /\ ret' = NoCall
  /\ UNCHANGED <<rng, ids, produced, runVars, build, clock, isGuest,
                 masterPassword, entries, dataSource, error,
                 isMasterPasswordVerified, masterHashItem, entriesItem,
                 passwordEntries, masterPasswordHash, createdFrom>>

\* AuthProvider.logout, and the vault provider's effect resetting its state.
Logout ==
  /\ build = "unified"
  /\ user # Null
  /\ user' = Null
  /\ entries' = <<>>
  /\ isMasterPasswordVerified' = FALSE
  /\ ret' = NoCall
  /\ UNCHANGED <<rng, ids, produced, runVars, build, clock, isGuest,
                 masterPassword, dataSource, error, masterHashItem,
                 entriesItem, passwordEntries, masterPasswordHash, createdFrom>>

\* VaultProvider.setMasterPassword (local database).
LocalDbSetMasterPassword(password) ==
  /\ DashboardShown
  /\ IF user = Null THEN
       /\ ret' = Ret("create", password, Thrown("User not authenticated"))
       /\ UNCHANGED <<rng, masterPasswordHash, createdFrom,
                      isMasterPasswordVerified, error, entries>>
     ELSE
       /\ rng + 1 <= MaxSalts
       /\ rng' = rng + 1
       /\ masterPasswordHash' =
            AuthSetMasterPassword(password, RandomBytes(SALT_LEN, rng))
       /\ createdFrom' = Some(password)
       /\ isMasterPasswordVerified' = TRUE
       /\ error' = Null
       /\ entries' = GetPasswordEntries(passwordEntries, user[1])
       /\ ret' = Ret("create", password, Returned("void"))
  /\ UNCHANGED <<ids, produced, runVars, build, clock, user, isGuest,
                 masterPassword, dataSource, masterHashItem, entriesItem,
                 passwordEntries>>

\* VaultProvider.verifyMasterPassword (local database).
LocalDbVerifyMasterPassword(password) ==
  /\ DashboardShown
  /\ IF user = Null THEN
       /\ ret' = Failed("verify", password, Returned("false"))
       /\ UNCHANGED <<isMasterPasswordVerified, error, entries>>
     ELSE IF AuthVerifyMasterPassword(masterPasswordHash, password) THEN
       /\ isMasterPasswordVerified' = TRUE
       /\ error' = Null
       /\ entries' = GetPasswordEntries(passwordEntries, user[1])
       /\ ret' = Passed("verify", password, Returned("true"))
     ELSE
       /\ error' = Some("Invalid master password")
       /\ ret' = Failed("verify", password, Returned("false"))
       /\ UNCHANGED <<isMasterPasswordVerified, entries>>
  /\ UNCHANGED <<rng, ids, produced, runVars, build, clock, user, isGuest,
                 masterPassword, dataSource, masterHashItem, entriesItem,
                 passwordEntries, masterPasswordHash, createdFrom>>

\* VaultProvider.addEntry (local database).
LocalDbAddEntry(entry) ==
  /\ DashboardShown
  /\ IF user = Null THEN
       /\ ret' = Ret("addEntry", <<>>, Thrown("User not authenticated"))
       /\ UNCHANGED <<ids, clock, passwordEntries, entries, error>>
     ELSE
       /\ ids < MaxIds
       /\ ids' = ids + 1
       /\ \E now \in NowChoices :
          \E tbl \in {CreatePasswordEntry(passwordEntries, user[1], entry,
                                         GenerateId(ids), ToISOString(now))} :
          \E newEntry \in {GetPasswordEntry(tbl, user[1], GenerateId(ids))} :
            /\ clock' = now
            /\ passwordEntries' = tbl
            /\ entries' = <<newEntry[1]>> \o entries
       /\ error' = Null
       /\ ret' = Ret("addEntry", <<>>, Returned("void"))
  /\ UNCHANGED <<rng, produced, runVars, build, user, isGuest,
                 masterPassword, dataSource, isMasterPasswordVerified,
                 masterHashItem, entriesItem, masterPasswordHash, createdFrom>>

\* What stands in the list where updatePasswordEntry returned null.
NullEntry ==
  [title |-> <<>>, password |-> <<>>, id |-> <<>>, created_at |-> <<>>,
   updated_at |-> <<>>]

\* VaultProvider.updateEntry (local database).
LocalDbUpdateEntry(id, entry) ==
  /\ DashboardShown
  /\ IF user = Null THEN
       /\ ret' = Ret("updateEntry", id, Thrown("User not authenticated"))
       /\ UNCHANGED <<clock, passwordEntries, entries, error>>
     ELSE
       /\ \E now \in NowChoices :
          \E tbl \in {UpdatePasswordEntry(passwordEntries, user[1], id, entry,
                                         ToISOString(now))} :
          \E updatedEntry \in {GetPasswordEntry(tbl, user[1], id)} :
            /\ clock' = now
            /\ passwordEntries' = tbl
            /\ entries' = [i \in 1..Len(entries) |->
                             IF entries[i].id = id
                             THEN IF updatedEntry = Null THEN NullEntry
                                  ELSE updatedEntry[1]
                             ELSE entries[i]]
       /\ error' = Null
       /\ ret' = Ret("updateEntry", id, Returned("void"))
  /\ UNCHANGED <<rng, ids, produced, runVars, build, user, isGuest,
                 masterPassword, dataSource, isMasterPasswordVerified,
                 masterHashItem, entriesItem, masterPasswordHash, createdFrom>>

\* VaultProvider.deleteEntry (local database).
LocalDbDeleteEntry(id) ==
  /\ DashboardShown
  /\ IF user = Null THEN
       /\ ret' = Ret("deleteEntry", id, Thrown("User not authenticated"))
       /\ UNCHANGED <<passwordEntries, entries, error>>
     ELSE
       /\ passwordEntries' = DeletePasswordEntry(passwordEntries, user[1], id)
       /\ entries' = SelectSeq(entries, LAMBDA e : e.id # id)
       /\ error' = Null
       /\ ret' = Ret("deleteEntry", id, Returned("void"))
  /\ UNCHANGED <<rng, ids, produced, runVars, build, clock, user, isGuest,
                 masterPassword, dataSource, isMasterPasswordVerified,
                 masterHashItem, entriesItem, masterPasswordHash, createdFrom>>

\* VaultProvider.refreshEntries (local database): loadEntries.
LocalDbRefreshEntries ==
  /\ DashboardShown
  /\ IF user = Null THEN UNCHANGED <<entries, error>>
     ELSE /\ entries' = GetPasswordEntries(passwordEntries, user[1])
          /\ error' = Null
  /\ ret' = Ret("loadEntries", <<>>, Returned("void"))
  /\ UNCHANGED <<rng, ids, produced, runVars, build, clock, user, isGuest,
                 masterPassword, dataSource, isMasterPasswordVerified,
                 masterHashItem, entriesItem, passwordEntries,
                 masterPasswordHash, createdFrom>>

\* The page is loaded again: the providers start from their initial state;
\* what is persisted (the session, localStorage, the tables) stays.
Reload ==
  /\ build \in {"guest", "cloud", "both", "unified"}
  /\ isGuest' = FALSE
  /\ masterPassword' = Null
  /\ entries' = <<>>
  /\ dataSource' = Null
  /\ error' = Null
  /\ isMasterPasswordVerified' = FALSE
  /\ ret' = NoCall
  /\ UNCHANGED <<rng, ids, produced, runVars, build, clock, user, masterHashItem,
                 entriesItem, passwordEntries, masterPasswordHash, createdFrom>>

\* ---------------------------------------------------------- specifications
\* The stores while the cipher is run on its own, and the reverse.
StoreIdle ==
  /\ clock = 0
  /\ user = Null
  /\ isGuest = FALSE
  /\ masterPassword = Null
  /\ entries = <<>>
  /\ dataSource = Null
  /\ error = Null
  /\ isMasterPasswordVerified = FALSE
  /\ masterHashItem = Null
  /\ entriesItem = Null
  /\ passwordEntries = <<>>
  /\ masterPasswordHash = Null
  /\ ret = NoCall
  /\ createdFrom = Null

CipherIdle ==
  /\ hHonest = Null
  /\ hOp = "none"
  /\ hToken = <<>> /\ hWith = <<>> /\ hPos = 0
  /\ hResult = NoResult /\ hLoad = NoResult

CipherInit ==
  /\ rng = 0
  /\ ids = 0
  /\ produced = <<>>
  /\ hPlain \in CipherPlaintexts
  /\ hSecret \in CipherSecrets
  /\ CipherIdle
  /\ build = "cipher"
  /\ StoreIdle
  /\ SideIdle

CipherNext == CipherEncrypt \/ CipherDecrypt \/ CipherTamper \/ CipherMalformed

SpecCipher == CipherInit /\ [][CipherNext]_vars

\* A fresh installation of one of the builds: the vault without Supabase
\* (guest mode only), the vault with Supabase, the unified application on
\* the local database with one registered user.
Init ==
  /\ rng = 0
  /\ ids = 0
  /\ produced = <<>>
  /\ hPlain = <<>> /\ hSecret = <<>>
  /\ CipherIdle
  /\ build \in {"guest", "cloud", "unified"}
  /\ StoreIdle
  /\ SideIdle

Next ==
  \/ ContinueAsGuest
  \/ SignIn
  \/ SignOut
  \/ \E password \in Secrets : VaultSetMasterPassword(password)
  \/ \E entry \in NewEntries : VaultAddEntry(entry)
  \/ \E id \in KnownIds :
       \E entry \in Patches \cup StampPatches :
         VaultUpdateEntry(id, entry)
  \/ \E id \in KnownIds : VaultDeleteEntry(id)
  \/ VaultRefreshEntries
  \/ Login
  \/ Logout
  \/ \E password \in Secrets : LocalDbSetMasterPassword(password)
  \/ \E password \in Secrets : LocalDbVerifyMasterPassword(password)
  \/ \E entry \in NewEntries : LocalDbAddEntry(entry)
  \/ \E id \in KnownIds, entry \in Patches : LocalDbUpdateEntry(id, entry)
  \/ \E id \in KnownIds : LocalDbDeleteEntry(id)
  \/ LocalDbRefreshEntries
  \/ Reload

Spec == Init /\ [][Next]_vars

\* The LocalDataSource on its own: an empty localStorage and two callers.
LocalInit ==
  /\ rng = 0
  /\ ids = 0
  /\ produced = <<>>
  /\ hPlain = <<>> /\ hSecret = <<>>
  /\ CipherIdle
  /\ build = "local"
  /\ StoreIdle
  /\ SideIdle

LocalNext ==
  \/ \E t \in Callers, secret \in LocalSecrets : LocalLoadEntries(t, secret)
  \/ \E t \in Callers, entry \in LocalNewEntries :
       LocalAddEntry(t, Longpass1, entry)
  \/ \E t \in Callers, id \in LocalIds, entry \in LocalPatches :
       LocalUpdateEntry(t, Longpass1, id, entry)
  \/ \E t \in Callers, id \in LocalIds : LocalDeleteEntry(t, Longpass1, id)
  \/ \E t \in Callers : LocalSettle(t)
  \/ LocalCorrupt

SpecLocal == LocalInit /\ [][LocalNext]_vars

\* The PasswordGenerator on its own: one password, one call.
\* The vault with Supabase, used by a user and by a guest in turn.
BothInit ==
  /\ rng = 0
  /\ ids = 0
  /\ produced = <<>>
  /\ hPlain = <<>> /\ hSecret = <<>>
  /\ CipherIdle
  /\ build = "both"
  /\ StoreIdle
  /\ SideIdle

BothNext ==
  \/ ContinueAsGuest
  \/ SignIn
  \/ SignOut
  \/ \E password \in Secrets : VaultSetMasterPassword(password)
  \/ \E entry \in NewEntries : VaultAddEntry(entry)
  \/ VaultRefreshEntries
  \/ Reload

SpecBoth == BothInit /\ [][BothNext]_vars

\* The vault with Supabase, used by a signed-in user.
RemoteInit ==
  /\ rng = 0
  /\ ids = 0
  /\ produced = <<>>
  /\ hPlain = <<>> /\ hSecret = <<>>
  /\ CipherIdle
  /\ build = "remote"
  /\ StoreIdle
  /\ SideIdle

RemoteNext ==
  \/ SignIn
  \/ \E password \in Secrets : VaultSetMasterPassword(password)
  \/ \E entry \in NewEntries : VaultAddEntry(entry)
  \/ \E id \in KnownIds :
       \E entry \in Patches \cup StampPatches :
         VaultUpdateEntry(id, entry)
  \/ \E id \in KnownIds : VaultDeleteEntry(id)
  \/ VaultRefreshEntries

SpecRemote == RemoteInit /\ [][RemoteNext]_vars

\* A guest's session of the vault with calls in flight.
SessionInit ==
  /\ rng = 0
  /\ ids = 0
  /\ produced = <<>>
  /\ hPlain = <<>> /\ hSecret = <<>>
  /\ CipherIdle
  /\ build = "session"
  /\ StoreIdle
  /\ SideIdle

SessionNext ==
  \/ ContinueAsGuest
  \/ \E password \in Secrets : VaultSetMasterPassword(password)
  \/ \E t \in SessionCallers, entry \in NewEntries : GuestAddEntry(t, entry)
  \/ \E t \in SessionCallers, id \in KnownIds, entry \in Patches :
       GuestUpdateEntry(t, id, entry)
  \/ \E t \in SessionCallers, id \in KnownIds : GuestDeleteEntry(t, id)
  \/ \E t \in SessionCallers : GuestSettle(t)

SpecSession == SessionInit /\ [][SessionNext]_vars

\* The LocalDataSource with one caller, one call after the other.
SerialInit ==
  /\ rng = 0
  /\ ids = 0
  /\ produced = <<>>
  /\ hPlain = <<>> /\ hSecret = <<>>
  /\ CipherIdle
  /\ build = "serial"
  /\ StoreIdle
  /\ SideIdle

SerialNext ==
  \/ LocalLoadEntries(1, Longpass1)
  \/ \E entry \in LocalNewEntries : LocalAddEntry(1, Longpass1, entry)
  \/ \E id \in SerialIds, entry \in SerialPatches :
       LocalUpdateEntry(1, Longpass1, id, entry)
  \/ \E id \in SerialIds : LocalDeleteEntry(1, Longpass1, id)
  \/ LocalSettle(1)

SpecSerial == SerialInit /\ [][SerialNext]_vars

GenInit ==
  /\ rng = 0
  /\ ids = 0
  /\ produced = <<>>
  /\ hPlain = <<>> /\ hSecret = <<>>
  /\ CipherIdle
  /\ build = "generator"
  /\ StoreIdle
  /\ tasks = [t \in Callers |-> IdleTask]
  /\ gPassword \in GenPasswords
  /\ gStrength = Null
  /\ gSeen = {}
  /\ calls = [t \in SessionCallers |-> IdleCall]

GenNext == GenCalculateStrength \/ FormSetPassword

SpecGenerator == GenInit /\ [][GenNext]_vars

\* ------------------------------------------------------------ properties
\* The tokens encrypt has produced so far.
Tokens == {produced[i].token : i \in 1..Len(produced)}

\* The one error decrypt throws.
DecryptionFailed ==
  Throw("Decryption failed. Invalid password or corrupted data.")

\* The verifier the running build stores: the localStorage item, or the
\* column of the user's row.
Verifier == IF build = "unified" THEN masterPasswordHash ELSE masterHashItem

\* The last call was a verification and it let the caller in.
VerifySucceeded == ret.op = "verify" /\ ret.out.ok /\ ret.out.value # "false"

\* Whether secret s fails against the stored verifier v, computed from the
\* hash functions themselves.
Mismatch(v, s) ==
  \/ v = Null
  \/ IF build = "unified" THEN BcryptHash(s, Unhex(SubSeq(v[1], 8, 7 + 2 * SALT_LEN))) # v[1]
     ELSE HashPassword(s) # v[1]

\* What of a secret enters the verifier: its UTF-8 encoding (SHA-256, guest
\* mode), or the 72 bytes bcrypt reads of it (local database).
VerifierInput(s) == IF build = "unified" THEN BcryptKey(s) ELSE Utf8Encode(s)

\* C1: every password that is persisted -- a row of password_entries, the
\* item 'securevault_entries' -- is a token encrypt produced, never the
\* caller's plaintext.
C1_PersistedEncrypted ==
  /\ \A i \in 1..Len(passwordEntries) : passwordEntries[i].password \in Tokens
  /\ entriesItem # Null => entriesItem[1] \in Tokens

\* C2: decrypt(encrypt(P, S), S) returns exactly P for every plaintext P and
\* every secret S of length at least 8.
C2_RoundTrip ==
  (hOp = "decrypt" /\ hWith = hSecret /\ Len(hSecret) >= 8)
    => hResult = Ok(hPlain)

C4_TamperFails == hOp = "tamper" => ~hResult.ok

\* A byte of the ciphertext of a produced token was changed and decrypt
\* failed.
C4_Witness ==
  /\ hOp = "tamper"
  /\ hPlain = Hunter2
  /\ hPos = SALT_LEN + IV_LEN + 1
  /\ hToken # hHonest[1]
  /\ ~hResult.ok

\* C5: no two calls of encrypt -- the stores' re-encryption on every write
\* included -- produce the same token or use the same (salt, nonce) pair.
C5_Fresh ==
  \A i, j \in 1..Len(produced) :
    i # j => /\ produced[i].token # produced[j].token
             /\ <<produced[i].salt, produced[i].iv>>
                  # <<produced[j].salt, produced[j].iv>>

\* A store has encrypted the same plaintext under the same secret twice.
C5_Witness ==
  \E i, j \in 1..Len(produced) :
    /\ i < j
    /\ produced[i].plain = produced[j].plain
    /\ produced[i].secret = produced[j].secret
    /\ produced[i].token # produced[j].token

C7_CreateOnlyUnconfigured ==
  [][(ret'.op = "create" /\ Verifier # Null)
       => (~ret'.out.ok /\ Verifier' = Verifier)]_vars

\* C8: a secret of fewer than 8 characters is rejected by create, and no
\* verifier and no token is ever made from one.
C8_WeakSecretRejected ==
  /\ (ret.op = "create" /\ Len(ret.arg) < 8) => ~ret.out.ok
  /\ createdFrom # Null => Len(createdFrom[1]) >= 8
  /\ \A i \in 1..Len(produced) : Len(produced[i].secret) >= 8

Unlocked ==
  IF build = "unified" THEN isMasterPasswordVerified ELSE Truthy(masterPassword)

\* Somebody is in: a user or a guest.
SignedIn == user # Null \/ isGuest

StoreOps == {"loadEntries", "addEntry", "updateEntry", "deleteEntry"}

\* C11: while the gate is Locked (a verifier exists and the gate is not
\* Unlocked: after a lock and before the next successful verification)
\* listing the entries fails.
C11_LockedListFails ==
  (ret.op = "loadEntries" /\ Verifier # Null /\ ~Unlocked) => ~ret.out.ok

\* C12: once nobody is signed in, no secret is cached any more: not in the
\* provider, not in its data source, and the verified flag is down.
C12_SignedOutPurged ==
  ~SignedIn =>
    (masterPassword = Null /\ dataSource = Null /\ ~isMasterPasswordVerified)

\* C13: a store operation called while the gate is not Unlocked fails and
\* changes nothing, in storage or in memory, and encrypts nothing.
C13_LockedOpsFail ==
  [][(ret'.op \in StoreOps /\ ~Unlocked) =>
       /\ ~ret'.out.ok
       /\ UNCHANGED <<entriesItem, passwordEntries, entries, produced>>]_vars

\* C17: after a load from the remote table, every row whose token decrypts
\* under the session secret is among the entries, with its plaintext.
C17_PerRowDecrypt ==
  (ret.op = "loadEntries" /\ build = "cloud" /\ user # Null /\ dataSource # Null) =>
    \A i \in 1..Len(passwordEntries) :
      \A d \in {Decrypt(passwordEntries[i].password,
                        dataSource[1].masterPassword)} :
        d.ok => \E j \in 1..Len(entries) :
                  /\ entries[j].id = passwordEntries[i].id
                  /\ entries[j].password = d.value

\* C18: updateEntry and deleteEntry with an id no entry has fail.
C18_UnknownIdFails ==
  (ret.op \in {"updateEntry", "deleteEntry"} /\ ret.arg = MissingId /\ Unlocked)
    => ~ret.out.ok

\* C19: a step that replaces the verifier leaves every stored entry
\* encrypted under the secret of the new verifier.
C19_RotationAtomic ==
  [][(Verifier # Null /\ Verifier' # Null /\ Verifier' # Verifier) =>
       /\ \A i \in 1..Len(passwordEntries') :
            Decrypt(passwordEntries'[i].password, ret'.arg).ok
       /\ entriesItem' # Null => GetEntries(entriesItem', ret'.arg).ok]_vars

\* ------------------------------------------- the LocalDataSource's run
\* The ids of the entries of a list.
IdsOf(es) == {es[i].id : i \in 1..Len(es)}

\* Caller t's call ends in this step.
Settles(t, op) ==
  tasks[t].pc = "called" /\ tasks[t].op = op /\ tasks'[t].pc = "done"

\* Caller t's addEntry has ended without error.
Added(t) ==
  tasks[t].pc = "done" /\ tasks[t].op = "addEntry" /\ tasks[t].out.ok

\* C14: an addEntry on a vault that opens under the data source's secret,
\* with no write between its read and its write, returns the new entry with
\* the secret supplied, and the stored item then holds that entry followed
\* by exactly the entries it held before.
C14_SerializedAdds ==
  [][\A t \in Callers :
       \A before \in {GetEntries(entriesItem, tasks[t].secret)} :
         (Settles(t, "addEntry") /\ tasks[t].item = entriesItem /\ before.ok) =>
           /\ tasks'[t].out.ok
           /\ tasks'[t].out.value.id = tasks[t].id
           /\ tasks'[t].out.value.password = tasks[t].entry.password
           /\ GetEntries(entriesItem', tasks[t].secret)
                = Ok(<<tasks'[t].out.value>> \o before.value)]_vars

\* Two calls of addEntry, one after the other, have ended: the vault lists
\* two entries, the later one first, each with the secret it was given.
C14_Witness ==
  /\ Added(1) /\ Added(2)
  /\ tasks[1].item # tasks[2].item
  /\ \E r \in {GetEntries(entriesItem, Longpass1)} :
       /\ r.ok
       /\ Len(r.value) = 2
       /\ IdsOf(r.value) = {tasks[1].id, tasks[2].id}
       /\ r.value[1].password = Hunter2
       /\ r.value[2].password = <<65279, 34, 55357>>

\* C15: when two calls of addEntry that read the same item have both ended
\* without error, the stored item does not hold both of their entries.
C15_LostUpdate ==
  (Added(1) /\ Added(2) /\ tasks[1].item = tasks[2].item) =>
    \A s \in LocalSecrets :
      \A r \in {GetEntries(entriesItem, s)} :
        r.ok => ~({tasks[1].id, tasks[2].id} \subseteq IdsOf(r.value))

\* Both calls have ended without error and the vault lists one entry only.
C15_Witness ==
  /\ Added(1) /\ Added(2)
  /\ tasks[1].item = tasks[2].item
  /\ tasks[1].id # tasks[2].id
  /\ \E r \in {GetEntries(entriesItem, Longpass1)} :
       r.ok /\ Len(r.value) = 1 /\ IdsOf(r.value) \subseteq {tasks[1].id, tasks[2].id}

CountOf(password, x) ==
  Cardinality({i \in 1..Len(password) : InClass(password[i], x)})

\* The reference heuristic: 20, 15 and 15 for the lengths 8, 12 and 16, 10
\* for each class present, 5 for each class present twice, at most 100.
RefScore(password) ==
  LET Capped(score) == IF score < 100 THEN score ELSE 100
      Class(n) == Plus(10, n >= 1) + Plus(5, n >= 2)
  IN Capped(Plus(20, Len(password) >= 8)
              + Plus(15, Len(password) >= 12)
              + Plus(15, Len(password) >= 16)
              + Class(CountOf(password, "a-z"))
              + Class(CountOf(password, "A-Z"))
              + Class(CountOf(password, "0-9"))
              + Class(CountOf(password, "^a-zA-Z0-9")))

RefLabel(score) ==
  IF score < 40 THEN "Weak"
  ELSE IF score < 60 THEN "Fair"
  ELSE IF score < 80 THEN "Good"
  ELSE "Strong"

\* C20: calculateStrength gives the score and the label of the reference
\* heuristic, for every password.
C20_ReferenceHeuristic ==
  gStrength # Null =>
    /\ gStrength[1].score = RefScore(gPassword)
    /\ gStrength[1].score \in 0..100
    /\ gStrength[1].label = RefLabel(RefScore(gPassword))

\* The score the form has shown for a password, if it has shown one.
Seen(password) == {x.score : x \in {y \in gSeen : y.password = password}}

\* C21: the score of "a" is below the score of "aaaaaaaa", which is below
\* the score of "Aa1!aaaa", and every score lies between 0 and 100.
C21_StrengthOrdering ==
  /\ \A s \in Seen(<<97>>), t \in Seen([i \in 1..8 |-> 97]) : s < t
  /\ \A t \in Seen([i \in 1..8 |-> 97]),
        u \in Seen(<<65, 97, 49, 33, 97, 97, 97, 97>>) : t < u
  /\ \A x \in gSeen : x.score \in 0..100
  /\ gStrength # Null => gStrength[1].score \in 0..100

\* The form has shown the three scores of the ordering, and the score of a
\* password that meets every condition.
C21_Witness ==
  /\ Seen(<<97>>) # {}
  /\ Seen([i \in 1..8 |-> 97]) # {}
  /\ Seen(<<65, 97, 49, 33, 97, 97, 97, 97>>) # {}
  /\ \E x \in gSeen : Len(x.password) = 16 /\ x.score = 100

\* ------------------------------------------------------ entries, by step
\* From one list of entries to the next, no entry's updated_at goes back,
\* and afterwards none lies before its created_at.
StampsKept(before, after) ==
  /\ \A i \in 1..Len(before), j \in 1..Len(after) :
       before[i].id = after[j].id
         => ~TextLess(after[j].updated_at, before[i].updated_at)
  /\ \A j \in 1..Len(after) :
       ~TextLess(after[j].updated_at, after[j].created_at)

\* The entries of the guest's stored item, under the cached secret.
StoredEntries(item, secret) ==
  IF secret = Null THEN Ok(<<>>) ELSE GetEntries(item, secret[1])

\* C22: an updateEntry leaves every entry's updated_at no earlier than it
\* was and no earlier than its created_at, in the list in memory, in the
\* table and in the stored item.
C22_UpdatedAtMonotonic ==
  [][(ret'.op = "updateEntry" /\ ret'.out.ok) =>
       /\ StampsKept(entries, entries')
       /\ StampsKept(passwordEntries, passwordEntries')
       /\ \A before \in {StoredEntries(entriesItem, masterPassword)},
             after \in {StoredEntries(entriesItem', masterPassword)} :
            (before.ok /\ after.ok) => StampsKept(before.value, after.value)]_vars

\* No two entries of a list have the same id.
DistinctIds(es) ==
  \A i \in 1..Len(es), j \in 1..Len(es) : es[i].id = es[j].id => i = j

\* Caller t's call of a mutation ends in this step.
Mutates(t) ==
  /\ tasks[t].pc = "called" /\ tasks'[t].pc = "done"
  /\ tasks[t].op \in {"addEntry", "updateEntry", "deleteEntry"}

\* C23: addEntry returns an entry whose id no stored entry had and whose
\* timestamps are the time of the call, and after every addEntry,
\* updateEntry and deleteEntry the stored entries have pairwise distinct ids.
C23_DistinctIds ==
  [][\A t \in Callers :
       \A before \in {GetEntries(tasks[t].item, tasks[t].secret)},
          after \in {GetEntries(entriesItem', tasks[t].secret)} :
         (Mutates(t) /\ before.ok) =>
           /\ after.ok
           /\ DistinctIds(after.value)
           /\ tasks[t].op = "addEntry" =>
                /\ tasks'[t].out.ok
                /\ tasks'[t].out.value.id \notin IdsOf(before.value)
                /\ tasks'[t].out.value.created_at = ToISOString(tasks[t].now)
                /\ tasks'[t].out.value.updated_at = ToISOString(tasks[t].now)]_vars

\* C25: a mutation of the LocalDataSource stores a new token of the whole
\* list; updateEntry keeps the number of entries and every entry with
\* another id in its place, deleteEntry leaves exactly the entries with
\* another id in their order, addEntry puts the new entry before the others.
C25_WholeBlobFrame ==
  [][\A t \in Callers :
       \A before \in {GetEntries(tasks[t].item, tasks[t].secret)},
          after \in {GetEntries(entriesItem', tasks[t].secret)} :
         (Mutates(t) /\ before.ok) =>
           /\ after.ok
           /\ entriesItem' # tasks[t].item
           /\ produced' # produced
           /\ produced'[Len(produced')].token = entriesItem'[1]
           /\ produced'[Len(produced')].plain
                = JsonStringify(EntriesToJson(after.value))
           /\ tasks[t].op = "updateEntry" =>
                /\ Len(after.value) = Len(before.value)
                /\ \A i \in 1..Len(before.value) :
                     before.value[i].id # tasks[t].id
                       => after.value[i] = before.value[i]
           /\ tasks[t].op = "deleteEntry" =>
                after.value
                  = SelectSeq(before.value, LAMBDA e : e.id # tasks[t].id)
           /\ tasks[t].op = "addEntry" =>
                /\ Len(after.value) = Len(before.value) + 1
                /\ after.value[1].id = tasks[t].id
                /\ \A i \in 1..Len(before.value) :
                     after.value[i + 1] = before.value[i]]_vars

\* The second of three entries has been deleted, the first and the third
\* are stored in their order; and an update of one of several entries and
\* an add to a list of two have been stored.
C25_Witness ==
  /\ tasks[1].pc = "done" /\ tasks[1].op = "deleteEntry" /\ tasks[1].out.ok
  /\ \E before \in {GetEntries(tasks[1].item, Longpass1)},
        after \in {GetEntries(entriesItem, Longpass1)} :
       /\ before.ok /\ after.ok
       /\ Len(before.value) = 3
       /\ before.value[2].id = tasks[1].id
       /\ after.value = <<before.value[1], before.value[3]>>
       /\ after.value[1].password # after.value[2].password

\* ------------------------------------------------- the verifier's salt
\* The piece occurs in the text.
Contains(text, piece) ==
  \E i \in 0..(Len(text) - Len(piece)) :
    SubSeq(text, i + 1, i + Len(piece)) = piece

\* C24: a step that stores a verifier draws a salt for it and stores the
\* salt with it; the record is neither the secret nor the unsalted digest
\* of the secret.
C24_SaltedVerifier ==
  [][(Verifier' # Null /\ Verifier' # Verifier) =>
       /\ Verifier'[1] # ret'.arg
       /\ Verifier'[1] # HashPassword(ret'.arg)
       /\ rng' > rng
       /\ \E c \in rng..(rng' - 1) :
            Contains(Verifier'[1], HexBytes(RandomBytes(SALT_LEN, c)))]_vars

\* --------------------------------------------- one secret for one vault
\* C26: whenever a guest's step stores an item, the item is a token made
\* under a secret that the stored verifier accepts, and it decrypts under
\* every secret the verifier accepts.
C26_BlobUnderVerifiedSecret ==
  [][(isGuest /\ entriesItem' # entriesItem /\ entriesItem' # Null) =>
       /\ \E i \in 1..Len(produced') :
            /\ produced'[i].token = entriesItem'[1]
            /\ LocalVerifyMasterPassword(masterHashItem', produced'[i].secret)
       /\ \A s \in Secrets :
            LocalVerifyMasterPassword(masterHashItem', s)
              => GetEntries(entriesItem', s).ok]_vars

\* C27: with Supabase, the rows of the table decrypt under one secret, and
\* after a session has written a row they all decrypt under the secret of
\* that session.
C27_OneSecretPerUser ==
  build = "cloud" =>
    /\ \E s \in Secrets :
         \A i \in 1..Len(passwordEntries) :
           Decrypt(passwordEntries[i].password, s).ok
    /\ (ret.op \in {"addEntry", "updateEntry"} /\ ret.out.ok
          /\ user # Null /\ dataSource # Null) =>
         \A i \in 1..Len(passwordEntries) :
           Decrypt(passwordEntries[i].password,
                   dataSource[1].masterPassword).ok

\* ------------------------------------------- the guest's calls in flight
\* The call of caller t is an addEntry that has ended, and no deleteEntry
\* names its entry.
AddedAndKept(t) ==
  /\ calls[t].pc = "done" /\ calls[t].op = "addEntry"
  /\ \A u \in SessionCallers :
       ~(calls[u].op = "deleteEntry" /\ calls[u].id = calls[t].id)

\* C28: in guest mode, once no call is in flight the stored item decrypts to
\* exactly the entries in memory, and every entry added by a completed call
\* and not deleted is among them.
C28_InterleavedCallsConverge ==
  (build = "session" /\ isGuest /\ Truthy(masterPassword)
     /\ \A t \in SessionCallers : calls[t].pc # "called") =>
    /\ GetEntries(entriesItem, masterPassword[1]) = Ok(entries)
    /\ \A t \in SessionCallers : AddedAndKept(t) => calls[t].id \in IdsOf(entries)

\* C29: in guest mode with a verifier stored, setMasterPassword with a secret
\* whose hash is not the stored verifier throws "Invalid master password"
\* and leaves the stored verifier, the stored blob, the cached master
\* password (null when it was null) and the entries in memory as they were.
C29_WrongSecretFrame ==
  [][(isGuest /\ ret'.op = "verify" /\ Truthy(masterHashItem)
        /\ HashPassword(ret'.arg) # masterHashItem[1])
       => /\ ret'.out = Thrown("Invalid master password")
          /\ masterHashItem' = masterHashItem
          /\ entriesItem' = entriesItem
          /\ masterPassword' = masterPassword
          /\ entries' = entries
          /\ (masterPassword = Null => ~Truthy(masterPassword'))]_vars

\* A guest with a stored verifier and a stored blob of one entry at least,
\* nothing cached, has just been refused with a secret that does not match.
C29_Witness ==
  /\ isGuest
  /\ ret.op = "verify"
  /\ ret.out = Thrown("Invalid master password")
  /\ Truthy(masterHashItem)
  /\ HashPassword(ret.arg) # masterHashItem[1]
  /\ masterPassword = Null
  /\ entries = <<>>
  /\ \E secret \in Secrets :
       \E stored \in {GetEntries(entriesItem, secret)} :
         stored.ok /\ Len(stored.value) > 0

\* The row of table tbl with the given id, as a set of at most one row.
RowsOf(tbl, id) == {tbl[i] : i \in {j \in 1..Len(tbl) : tbl[j].id = id}}

\* C30: a remote updateEntry(id, patch) keeps the number of rows and every
\* row with another id as it was; without a password in the patch the
\* row's token is the one it had; with one, the row's token is not the
\* plaintext, no earlier call of encrypt produced it, its salt and nonce are
\* those of this call's draws, and it decrypts to the patch's password under
\* the data source's secret.
C30_RewrapOnlyWithSecret ==
  [][\A id \in KnownIds : \A entry \in Patches \cup StampPatches :
       (/\ ~isGuest /\ user # Null /\ dataSource # Null
        /\ dataSource[1].kind = "supabase"
        /\ ret'.op = "updateEntry" /\ ret'.arg = id /\ ret'.out.ok
        /\ VaultUpdateEntry(id, entry))
       => /\ Len(passwordEntries') = Len(passwordEntries)
          /\ \A i \in 1..Len(passwordEntries) :
               IF passwordEntries[i].id # id
               THEN passwordEntries'[i] = passwordEntries[i]
               ELSE IF entry.password = Null
               THEN /\ passwordEntries'[i].password = passwordEntries[i].password
                    /\ produced' = produced
               ELSE /\ passwordEntries'[i].password # entry.password[1]
                    /\ passwordEntries'[i].password \notin Tokens
                    /\ Len(produced') = Len(produced) + 1
                    /\ \A made \in {produced'[Len(produced')]} :
                         /\ made.token = passwordEntries'[i].password
                         /\ made.plain = entry.password[1]
                         /\ made.salt = RandomBytes(SALT_LEN, rng)
                         /\ made.iv = RandomBytes(IV_LEN, rng + 1)
                         /\ \A j \in 1..Len(produced) :
                              /\ produced[j].salt # made.salt
                              /\ produced[j].iv # made.iv
                    /\ Decrypt(passwordEntries'[i].password,
                               dataSource[1].masterPassword)
                         = Ok(entry.password[1])]_vars

\* A signed-in user with two rows has just given one of them the password
\* "new": that row's token decrypts to it, the other row's to "hunter2".
C30_Witness ==
  /\ ~isGuest /\ user # Null /\ dataSource # Null
  /\ dataSource[1].kind = "supabase"
  /\ ret.op = "updateEntry" /\ ret.out.ok
  /\ Len(passwordEntries) = 2
  /\ \E row \in RowsOf(passwordEntries, ret.arg) :
       Decrypt(row.password, dataSource[1].masterPassword)
         = Ok(<<110, 101, 119>>)
  /\ \E i \in 1..Len(passwordEntries) :
       /\ passwordEntries[i].id # ret.arg
       /\ Decrypt(passwordEntries[i].password, dataSource[1].masterPassword)
            = Ok(Hunter2)

====
